---- MODULE Spec2Model ----
(***************************************************************************)
(* TCP stream reassembler of netcap (src/encoder/tcpReader.go, package     *)
(* reassembly): one connection of a StreamPool, its two half-connections,  *)
(* the assembler-local page cache and the stream consumer's callbacks.     *)
(* Every top-level Assembler call (AssembleWithContext, FlushWithOptions,  *)
(* FlushAll) is one action; the Go functions are operators over a record M *)
(* that holds the state the call mutates.                                  *)
(***************************************************************************)
EXTENDS Integers, Sequences, FiniteSets, TLC

VARIABLES
    c2s,        \* halfconnection client -> server
    s2c,        \* halfconnection server -> client
    pc,         \* pageCache of the assembler: [free, used, size]
    pool,       \* TRUE iff the connection is in the StreamPool
    stream,     \* number of streams StreamFactory.New has created
    opts,       \* AssemblerOptions and the consumer's behaviour, fixed at construction
    calls,      \* callbacks made by the last top-level call, in order
    lastCall,   \* the last top-level call and its input
    obs,        \* what the consumer has observed so far, per direction
    step,       \* number of top-level calls made
    conns,      \* shared pool: the connections ever created, each with its mutex
    connPool,   \* shared pool: the connection it holds, and how many it has made
    asm,        \* shared pool: where each of the assemblers is in its call
    readers,    \* the two tcpReaders of one tcpConnection, and where each is
    bytesChan,  \* tcpReader.bytes of each reader: the channel and what was sent on it
    parent,     \* the tcpConnection the two readers share
    factory     \* the tcpConnectionFactory: its mutex, numActive and wait group

assemblerVars == <<c2s, s2c, pc, pool, stream, opts, calls, lastCall, obs, step>>
sharedVars == <<conns, connPool, asm>>
readerVars == <<readers, bytesChan, parent, factory>>
vars == <<c2s, s2c, pc, pool, stream, opts, calls, lastCall, obs, step, conns, connPool, asm,
          readers, bytesChan, parent, factory>>

(***************************************************************************)
(* Bounds of the model.                                                    *)
(***************************************************************************)
MaxCalls == 3          \* top-level calls per behaviour
MaxPayload == 3        \* longest payload of a segment
MaxOffset == 3         \* segments lie in Isn .. Isn + MaxOffset
PageBytes == 2         \* capacity of a page (pageBytes, scaled down)
PcGrow == 2            \* pages added by one growth of the page cache
NumAssemblers == 2     \* assemblers that share the pool
MaxConns == 2          \* connections the shared pool creates for the key
MaxQueued == 1         \* pages queued in a half of a shared connection
MaxChunks == 2         \* chunks sent on the byte channels of the connection
MaxChunk == 2          \* longest chunk
MaxBuf == 2            \* longest buffer handed to Read
ChanCap == 1           \* capacity of a byte channel
MaxLateReads == 1      \* Read calls on a reader after its Run has returned
MaxKeep == 2           \* largest offset the consumer keeps from

(***************************************************************************)
(* Sequence arithmetic: modular sequence numbers.  The program's space is   *)
(* 2^32, which is more than TLC's integers hold; the model keeps the       *)
(* wraparound in a space of 2^16.                                          *)
(***************************************************************************)
SeqMod == 65536
invalidSequence == -1

Add(s, n) == (s + n) % SeqMod

\* t - s as a signed value of the width of the space
Difference(s, t) ==
    LET d == (t - s) % SeqMod
    IN  IF d >= SeqMod \div 2 THEN d - SeqMod ELSE d

\* The initial sequence number of the modelled client: the data bytes that
\* follow it wrap around the sequence space.
Isn == SeqMod - 2

(***************************************************************************)
(* Sequences.                                                              *)
(***************************************************************************)
Take(s, n) == SubSeq(s, 1, n)
Drop(s, n) == SubSeq(s, n + 1, Len(s))
RemoveAt(s, i) == Take(s, i - 1) \o Drop(s, i)

RECURSIVE SumLen(_)
SumLen(ps) == IF ps = <<>> THEN 0 ELSE Len(Head(ps).bytes) + SumLen(Tail(ps))

Min(a, b) == IF a < b THEN a ELSE b

Dirs == {"c2s", "s2c"}
Half(M, d) == IF d = "c2s" THEN M.c2s ELSE M.s2c
Rev(d) == IF d = "c2s" THEN "s2c" ELSE "c2s"

(***************************************************************************)
(* Page cache.  A page is a record [id, seq, bytes, seen, start, end, pkt]; *)
(* the livePacket of the call is a record of the same shape with id = 0.   *)
(***************************************************************************)
pcGrow(c) ==
    [c EXCEPT !.free = @ \o [i \in 1..PcGrow |-> c.size + i],
              !.size = @ + PcGrow]

newPageCache == pcGrow([free |-> <<>>, used |-> 0, size |-> 0])

\* pageCache.next: the cache after handing out a page; the page is pcNextId
pcNextId(c) == LET g == IF c.free = <<>> THEN pcGrow(c) ELSE c
               IN  g.free[Len(g.free)]
pcNext(c) == LET g == IF c.free = <<>> THEN pcGrow(c) ELSE c
             IN  [g EXCEPT !.free = Take(@, Len(@) - 1), !.used = @ + 1]

replace(c, id) == [c EXCEPT !.used = @ - 1, !.free = Append(@, id)]

\* byteContainer.release: a page goes back to the cache and counts 1,
\* the livePacket holds no page and counts 0
release(c, r) == IF r.id = 0 THEN c ELSE replace(c, r.id)
released(r) == IF r.id = 0 THEN 0 ELSE 1

\* livePacket.convertToPages: the bytes from offset skip on, split into pages
RECURSIVE lpPages(_, _, _, _, _, _)
lpPages(c, seq, bytes, ts, end, first) ==
    LET n == Min(Len(bytes), PageBytes)
        rest == Drop(bytes, n)
        p == [id |-> pcNextId(c), seq |-> seq, bytes |-> Take(bytes, n), seen |-> ts,
              start |-> FALSE, end |-> (rest = <<>>) /\ end, pkt |-> first]
    IN  IF rest = <<>> THEN <<p>>
        ELSE <<p>> \o lpPages(pcNext(c), Add(seq, n), rest, ts, end, FALSE)

RECURSIVE pcNextN(_, _)
pcNextN(c, n) == IF n = 0 THEN c ELSE pcNextN(pcNext(c), n - 1)

\* byteContainer.convertToPages: the pages that hold r from offset skip on
convertToPages(c, r, skip) ==
    IF r.id = 0
    THEN lpPages(c, Add(r.seq, skip), Drop(r.bytes, skip), r.seen, r.end, TRUE)
    ELSE <<[r EXCEPT !.bytes = Drop(@, skip), !.seq = Add(@, skip)]>>
convertedCache(c, r, skip) ==
    IF r.id = 0 THEN pcNextN(c, Len(convertToPages(c, r, skip))) ELSE c

(***************************************************************************)
(* The assembler.  M is the state one top-level call works on:             *)
(*   c2s, s2c, pc, pool, stream, opts, obs   as the variables,             *)
(*   lp      a.cacheLP, the packet being handled,                          *)
(*   ret     a.ret, the byte containers to send,                           *)
(*   sg      a.cacheSG: [Skip, saved, toKeep],                             *)
(*   action  assemblerAction: [nextSeq, queue],                            *)
(*   log     the callbacks made so far by this call.                       *)
(***************************************************************************)
SetHalf(M, d, h) == IF d = "c2s" THEN [M EXCEPT !.c2s = h] ELSE [M EXCEPT !.s2c = h]

\* The loop of checkOverlap over the queue, from half.last backwards.
\* L = [q, cur, nxt, bytes, overlapPackets, overlapBytes, pages, pc]; cur and
\* nxt are positions in q, 0 for nil.
RECURSIVE overlapLoop(_, _, _)
overlapLoop(L, start, end) ==
    IF L.cur = 0 THEN L
    ELSE
    LET c == L.q[L.cur]
        curEnd == Add(c.seq, Len(c.bytes))
        diffStart == Difference(start, c.seq)
        diffEnd == Difference(end, curEnd)
    IN  IF Difference(end, c.seq) > 0
        THEN \* case 5: the new range ends before cur
             overlapLoop([L EXCEPT !.nxt = L.cur, !.cur = L.cur - 1], start, end)
        ELSE IF Difference(start, curEnd) <= 0
        THEN \* case 1: the new range starts after cur
             L
        ELSE IF diffEnd <= 0 /\ diffStart >= 0
        THEN \* case 3: cur is covered: drop it
             overlapLoop([L EXCEPT !.overlapPackets = IF c.pkt THEN @ + 1 ELSE @,
                                   !.overlapBytes = @ + Len(c.bytes),
                                   !.q = RemoveAt(@, L.cur),
                                   !.pc = release(@, c),
                                   !.pages = @ - released(c),
                                   !.nxt = IF @ > L.cur THEN @ - 1 ELSE @,
                                   !.cur = L.cur - 1], start, end)
        ELSE IF diffEnd < 0 /\ Difference(start, curEnd) > 0
        THEN \* case 2: drop cur's end
             [L EXCEPT !.q[L.cur].bytes = Take(@, -Difference(start, c.seq))]
        ELSE IF diffStart > 0 /\ Difference(end, c.seq) < 0
        THEN \* case 4: drop cur's start
             overlapLoop([L EXCEPT !.q[L.cur].bytes = Drop(@, -Difference(end, c.seq)),
                                   !.q[L.cur].seq = Add(@, -Difference(end, c.seq)),
                                   !.nxt = L.cur,
                                   !.cur = L.cur - 1], start, end)
        ELSE IF diffEnd > 0 /\ diffStart < 0
        THEN \* case 6: replace bytes inside cur
             overlapLoop([L EXCEPT !.q[L.cur].bytes =
                                       Take(@, -diffStart) \o L.bytes
                                           \o Drop(@, -diffStart + Len(L.bytes)),
                                   !.bytes = <<>>,
                                   !.cur = L.cur - 1], start, end)
        ELSE \* no overlap
             overlapLoop([L EXCEPT !.nxt = L.cur, !.cur = L.cur - 1], start, end)

\* checkOverlap after the loop: what is left of the packet is split into
\* pages that are linked in between cur and next
checkOverlapInsert(M, d, queue, L) ==
    LET half == Half(M, d)
        lp == [M.lp EXCEPT !.bytes = L.bytes]
        h1 == [half EXCEPT !.queue = L.q, !.overlapPackets = L.overlapPackets,
                           !.overlapBytes = L.overlapBytes, !.pages = L.pages]
        new == convertToPages(L.pc, lp, 0)
    IN  IF Len(L.bytes) > 0 /\ queue
        THEN [SetHalf(M, d,
                 [h1 EXCEPT !.queuedPackets = @ + 1,
                            !.queuedBytes = @ + Len(L.bytes),
                            !.pages = @ + Len(new),
                            !.queue = Take(L.q, L.cur) \o new
                                      \o (IF L.nxt = 0 THEN <<>> ELSE Drop(L.q, L.nxt - 1))])
              EXCEPT !.lp = lp, !.pc = convertedCache(L.pc, lp, 0)]
        ELSE [SetHalf(M, d, h1) EXCEPT !.lp = lp, !.pc = L.pc]

\* checkOverlap: resolve the overlaps of a.cacheLP with the queued pages,
\* from half.last backwards, and queue what is left of it when asked to
checkOverlap(M, d, queue) ==
    checkOverlapInsert(M, d, queue,
        overlapLoop([q |-> Half(M, d).queue, cur |-> Len(Half(M, d).queue), nxt |-> 0,
                     bytes |-> M.lp.bytes,
                     overlapPackets |-> Half(M, d).overlapPackets,
                     overlapBytes |-> Half(M, d).overlapBytes,
                     pages |-> Half(M, d).pages, pc |-> M.pc],
                    M.lp.seq, Add(M.lp.seq, Len(M.lp.bytes))))

\* overlapExisting, applied to a.cacheLP as handleBytes does
overlapExisting(M, d) ==
    LET half == Half(M, d)
        start == M.lp.seq
        bytes == M.lp.bytes
        diff == Difference(start, half.nextSeq)
        e == Len(bytes)
        s == IF diff >= e THEN e ELSE diff
    IN  IF half.nextSeq = invalidSequence \/ diff = 0 THEN M
        ELSE [SetHalf(M, d, IF e # 0
                            THEN [half EXCEPT !.overlapPackets = @ + 1,
                                              !.overlapBytes = @ + diff]
                            ELSE half)
              EXCEPT !.lp.bytes = Drop(bytes, s), !.lp.seq = half.nextSeq]

\* addNextFromConn: pop the first page of the queue into a.ret
addNextFromConn(M, d) ==
    LET half == Half(M, d)
    IN  IF half.queue = <<>> THEN M
        ELSE [SetHalf(M, d, [half EXCEPT !.queue = Tail(@)])
              EXCEPT !.ret = Append(@, Head(half.queue))]

\* handleBytes, the queued packet: a buffer limit that is reached stops the
\* queueing and sends the first queued page
handleBytesQueued(Q, d) ==
    IF \/ (Q.opts.MaxBufferedPagesPerConnection > 0
           /\ Half(Q, d).pages >= Q.opts.MaxBufferedPagesPerConnection)
       \/ (Q.opts.MaxBufferedPagesTotal > 0
           /\ Q.pc.used >= Q.opts.MaxBufferedPagesTotal)
    THEN addNextFromConn([Q EXCEPT !.action.queue = FALSE], d)
    ELSE Q

\* handleBytes that sends nothing for a packet that only starts the stream
handleBytesSentUnlessStart(S, start, end) ==
    IF Len(S.lp.bytes) # 0 \/ end
    THEN [S EXCEPT !.ret = Append(@, S.lp)]
    ELSE S

\* handleBytes, the packet to send: it goes to a.ret when it has bytes left
\* or starts or ends the stream
handleBytesSent(S, start, end) ==
    IF Len(S.lp.bytes) # 0 \/ end \/ start
    THEN [S EXCEPT !.ret = Append(@, S.lp)]
    ELSE S

handleBytesAction(M, d, start, end) ==
    IF M.action.queue
    THEN handleBytesQueued(checkOverlap(M, d, TRUE), d)
    ELSE handleBytesSent(checkOverlap(overlapExisting(M, d), d, FALSE), start, end)

\* handleBytes: prepare send or queue
handleBytes(M0, d, bytes, seq, ts, start, end) ==
    handleBytesAction([M0 EXCEPT !.lp = [id |-> 0, seq |-> seq, bytes |-> bytes,
                                         seen |-> ts, start |-> start, end |-> end,
                                         pkt |-> TRUE]],
                      d, start, end)

\* The bytes of a list of byte containers, each with its sequence number
RECURSIVE Flatten(_)
Flatten(all) ==
    IF all = <<>> THEN <<>>
    ELSE [i \in 1..Len(Head(all).bytes) |-> <<Add(Head(all).seq, i - 1), Head(all).bytes[i]>>]
         \o Flatten(Tail(all))

RECURSIVE releaseAll(_, _)
releaseAll(c, ps) == IF ps = <<>> THEN c ELSE releaseAll(release(c, Head(ps)), Tail(ps))

\* addPending: prepend the saved pages to a.ret, or drop them when they do
\* not end where the first container starts; sg.saved is the result
addPending(M, d, firstSeq) ==
    LET half == Half(M, d)
        s == SumLen(half.saved)
    IN  IF half.saved = <<>> THEN [M EXCEPT !.sg.saved = 0]
        ELSE IF Add(half.saved[1].seq, s) # firstSeq
        THEN [SetHalf(M, d, [half EXCEPT !.saved = <<>>])
              EXCEPT !.pc = releaseAll(@, half.saved), !.sg.saved = 0]
        ELSE [M EXCEPT !.ret = half.saved \o @, !.sg.saved = s]

\* addContiguous: move the queued pages that continue lastSeq to a.ret;
\* action.nextSeq is the result
RECURSIVE addContiguous(_, _, _)
addContiguous(M, d, lastSeq) ==
    LET half == Half(M, d)
        page == Head(half.queue)
    IN  IF half.queue # <<>> /\ Difference(lastSeq, page.seq) = 0
        THEN addContiguous([SetHalf(M, d, [half EXCEPT !.queue = Tail(@)])
                            EXCEPT !.ret = Append(@, page)],
                           d, Add(lastSeq, Len(page.bytes)))
        ELSE [M EXCEPT !.action.nextSeq = lastSeq]

setStatsToSG(M, d) ==
    LET half == Half(M, d)
    IN  [SetHalf(M, d, [half EXCEPT !.queuedBytes = 0, !.queuedPackets = 0,
                                    !.overlapBytes = 0, !.overlapPackets = 0])
         EXCEPT !.sg.queuedBytes = half.queuedBytes,
                !.sg.queuedPackets = half.queuedPackets,
                !.sg.overlapBytes = half.overlapBytes,
                !.sg.overlapPackets = half.overlapPackets]

\* buildSG, once a.ret is complete: the fields of a.cacheSG; sg.end is End of
\* the last container
buildSGFields(B, d, skip) ==
    setStatsToSG([B EXCEPT !.sg.Skip = skip, !.sg.toKeep = -1,
                           !.sg.end = B.ret[Len(B.ret)].end], d)

\* buildSG: prepend saved bytes and append contiguous bytes; sg.end is the
\* first result, action.nextSeq the second
buildSG(M, d) ==
    buildSGFields(addContiguous(addPending(M, d, M.ret[1].seq), d,
                                Add(M.ret[1].seq, Len(M.ret[1].bytes))),
                  d,
                  IF Half(M, d).nextSeq # invalidSequence
                  THEN Difference(Half(M, d).nextSeq, M.ret[1].seq) ELSE -1)

\* cleanSG: the first container to keep, and the offset in it
RECURSIVE firstToKeep(_, _, _, _, _)
firstToKeep(all, toKeep, i, cur, skip) ==
    IF i > Len(all) THEN [ndx |-> Len(all), skip |-> skip]
    ELSE IF toKeep < cur + Len(all[i].bytes) THEN [ndx |-> i - 1, skip |-> skip]
    ELSE firstToKeep(all, toKeep, i + 1, cur + Len(all[i].bytes),
                     IF skip >= Len(all[i].bytes) THEN skip - Len(all[i].bytes) ELSE skip)

\* cleanSG: release the consumed containers
RECURSIVE releaseConsumed(_, _, _)
releaseConsumed(M, d, rs) ==
    IF rs = <<>> THEN M
    ELSE
    LET r == Head(rs)
        half == Half(M, d)
        h1 == IF r.id # 0 /\ half.saved # <<>> /\ half.saved[1].id = r.id
              THEN [half EXCEPT !.saved = Tail(@)]
              ELSE IF r.id # 0 /\ half.queue # <<>> /\ half.queue[1].id = r.id
              THEN [half EXCEPT !.queue = Tail(@)]
              ELSE half
    IN  releaseConsumed([SetHalf(M, d, [h1 EXCEPT !.pages = @ - released(r)])
                         EXCEPT !.pc = release(@, r)], d, Tail(rs))

\* cleanSG: turn the containers that are kept into the saved list
RECURSIVE keepPages(_, _, _, _)
keepPages(M, d, rs, skip) ==
    IF rs = <<>> THEN M
    ELSE
    LET r == Head(rs)
        half == Half(M, d)
    IN  keepPages([SetHalf(M, d, [half EXCEPT !.saved = @ \o convertToPages(M.pc, r, skip)])
                   EXCEPT !.pc = convertedCache(@, r, skip)], d, Tail(rs), skip)

\* cleanSG: what is not consumed becomes the saved list
cleanSGKeep(R, d, rs, skip) ==
    keepPages(SetHalf(R, d, [Half(R, d) EXCEPT !.saved = <<>>]), d, rs, skip)

\* cleanSG from the first container to keep on: release what is before it,
\* keep the rest
cleanSGFrom(M, d, k) ==
    cleanSGKeep(releaseConsumed(M, d, Take(M.ret, k.ndx)), d, Drop(M.ret, k.ndx), k.skip)

cleanSG(M, d) ==
    cleanSGFrom(M, d, IF M.sg.toKeep < 0 THEN [ndx |-> Len(M.ret), skip |-> 0]
                      ELSE firstToKeep(M.ret, M.sg.toKeep, 1, 0, M.sg.toKeep))

\* closeHalfConnection without the test that both halves are closed: the
\* stream is told the reassembly is complete each time one of its halves closes
closeHalfConnectionEachHalf(M, d) ==
    LET half == Half(M, d)
        C == [SetHalf(M, d, [half EXCEPT !.closed = TRUE, !.pages = @ - Len(half.queue)])
              EXCEPT !.pc = releaseAll(@, half.queue)]
    IN  [C EXCEPT !.log = Append(@, [op |-> "ReassemblyComplete", dir |-> d,
                                     stream |-> M.stream]),
                  !.obs.complete = @ + 1,
                  !.pool = IF M.opts.complete THEN FALSE ELSE @]

\* closeHalfConnection: the queued pages go back to the cache, half.first and
\* half.saved are left as they are; ReassemblyComplete once both halves are closed
closeHalfConnection(M, d) ==
    LET half == Half(M, d)
        C == [SetHalf(M, d, [half EXCEPT !.closed = TRUE, !.pages = @ - Len(half.queue)])
              EXCEPT !.pc = releaseAll(@, half.queue)]
    IN  IF C.s2c.closed /\ C.c2s.closed
        THEN [C EXCEPT !.log = Append(@, [op |-> "ReassemblyComplete", dir |-> d,
                                          stream |-> M.stream]),
                       !.obs.complete = @ + 1,
                       !.pool = IF M.opts.complete THEN FALSE ELSE @]
        ELSE C

\* The consumer: Stream.ReassembledSG sees the scatter-gather and sets toKeep
ReassembledSG(M, d) ==
    LET data == Flatten(M.ret)
        new == Drop(data, M.sg.saved)
        half == Half(M, d)
    IN  [M EXCEPT !.log = Append(@, [op |-> "ReassembledSG", dir |-> d, stream |-> M.stream,
                                     Skip |-> M.sg.Skip, saved |-> M.sg.saved,
                                     data |-> data, end |-> M.sg.end,
                                     nextSeq |-> half.nextSeq,
                                     overlapBytes |-> M.sg.overlapBytes,
                                     queuedBytes |-> M.sg.queuedBytes]),
                  !.sg.toKeep = M.opts.toKeep,
                  !.obs[d].delivered = @ \o new,
                  !.obs.late = @ \/ M.obs.complete > 0]

\* sendToConnection closing the half before the stream is given the bytes
closeBeforeSend(B, d) == IF B.sg.end THEN closeHalfConnection(B, d) ELSE B

sendToConnectionCloseFirst(M, d) ==
    cleanSG(ReassembledSG(closeBeforeSend(buildSG(M, d), d), d), d)

\* sendToConnection after cleanSG: the half is closed when the last
\* container sent had End set
sendToConnectionEnd(S, d) == IF S.sg.end THEN closeHalfConnection(S, d) ELSE S

\* sendToConnection: send a.ret to the stream; action.nextSeq is the result
sendToConnection(M, d) ==
    sendToConnectionEnd(cleanSG(ReassembledSG(buildSG(M, d), d), d), d)

\* skipFlush that leaves nextSeq where it was: the bytes skipped and sent are
\* still waited for
skipFlushKeepNextSeq(S, d) == S

\* skipFlush after the send: nextSeq moves to the end of what was sent
skipFlushNextSeq(S, d) ==
    IF S.action.nextSeq # invalidSequence
    THEN SetHalf(S, d, [Half(S, d) EXCEPT !.nextSeq = S.action.nextSeq])
    ELSE S

\* skipFlush: skip the bytes the half waits for and send the first queued
\* page, or close the half when nothing is queued
skipFlush(M, d) ==
    IF Half(M, d).queue = <<>> THEN closeHalfConnection(M, d)
    ELSE skipFlushNextSeq(sendToConnection(addNextFromConn([M EXCEPT !.ret = <<>>], d), d),
                          d)

\* connection.lastSeen: the later of the two halves' lastSeen
connLastSeen(M) == IF M.c2s.lastSeen < M.s2c.lastSeen THEN M.s2c.lastSeen ELSE M.c2s.lastSeen

\* flushClose: the loop that skip-flushes while the first page is older than
\* t, left when the half got closed
RECURSIVE flushLoop(_, _, _)
\* a page seen at t or before it
seenNotAfter(p, t) == p.seen <= t

\* half.first.seen.Before(t)
seenBefore(p, t) == p.seen < t

flushLoopNext(S, d, t) ==
    IF Half(S, d).closed THEN [S EXCEPT !.closed = TRUE, !.returned = TRUE]
    ELSE flushLoop(S, d, t)

flushLoop(M, d, t) ==
    IF Half(M, d).queue # <<>> /\ seenBefore(Half(M, d).queue[1], t)
    THEN flushLoopNext([skipFlush(M, d) EXCEPT !.flushed = TRUE], d, t)
    ELSE M

\* flushClose after the loop: a half with nothing queued is closed when the
\* connection was last seen before tc
flushCloseIdle(F, d, tc) ==
    IF F.returned THEN F
    ELSE IF ~Half(F, d).closed /\ Half(F, d).queue = <<>> /\ connLastSeen(F) < tc
    THEN [closeHalfConnection(F, d) EXCEPT !.closed = TRUE]
    ELSE F

flushCloseOpen(M, d, t, tc) ==
    IF Half(M, d).closed THEN M
    ELSE flushCloseIdle(flushLoop(M, d, t), d, tc)

\* flushClose: M.flushed and M.closed are the results
flushClose(M0, d, t, tc) ==
    flushCloseOpen([M0 EXCEPT !.flushed = FALSE, !.closed = FALSE, !.returned = FALSE],
                   d, t, tc)

\* FlushWithOptions: the counts of the halves flushed and closed
flushCounts(F) ==
    [F EXCEPT !.flushes = IF F.flushed THEN @ + 1 ELSE @,
              !.closes = IF F.closed THEN @ + 1 ELSE @]

flushHalf(M, d, t, tc) == flushCounts(flushClose(M, d, t, tc))

\* FlushWithOptions: a connection closed on both sides and last seen before
\* tc leaves the pool
flushRemove(F, tc) ==
    IF F.s2c.closed /\ F.c2s.closed /\ F.s2c.lastSeen < tc /\ F.c2s.lastSeen < tc
    THEN [F EXCEPT !.pool = FALSE]
    ELSE F

\* FlushWithOptions, for the connection of the pool: the halves in the order
\* s2c, c2s; M.flushes and M.closes are the results
FlushWithOptions(M, t, tc) ==
    IF ~M.pool THEN M
    ELSE flushRemove(flushHalf(flushHalf(M, "s2c", t, tc), "c2s", t, tc), tc)

\* FlushAll: skip-flush each half until it is closed; M.closes is the result
RECURSIVE drain(_, _)
drain(M, d) == IF Half(M, d).closed THEN M ELSE drain(skipFlush(M, d), d)

FlushAll(M) ==
    IF ~M.pool THEN M
    ELSE [drain(drain(M, "s2c"), "c2s") EXCEPT !.closes = 1]

\* connection.reset: both halves of a new connection
newHalf(ts) ==
    [nextSeq |-> invalidSequence, ackSeq |-> invalidSequence, queue |-> <<>>,
     saved |-> <<>>, pages |-> 0, closed |-> FALSE, lastSeen |-> ts,
     queuedPackets |-> 0, queuedBytes |-> 0, overlapPackets |-> 0, overlapBytes |-> 0]

\* What the model records about one direction of a stream: the new bytes
\* handed to ReassembledSG (each with its sequence number), the sequence
\* number the stream started at, the sequence numbers of the payload bytes of
\* the accepted segments, whether an accepted segment carried FIN or RST, and
\* whether the stream started with a SYN
newObs ==
    [delivered |-> <<>>, base |-> invalidSequence, sent |-> {}, ends |-> FALSE,
     syn |-> FALSE]

newConnObs(late) ==
    [c2s |-> newObs, s2c |-> newObs, complete |-> 0, late |-> late, flushed |-> FALSE]

\* StreamPool.getConnection: the connection of the key, created by
\* StreamFactory.New when the pool does not hold it
getConnection(M, ts) ==
    IF M.pool THEN M
    ELSE [M EXCEPT !.pool = TRUE, !.stream = @ + 1,
                   !.c2s = newHalf(ts), !.s2c = newHalf(ts),
                   !.obs = newConnObs(M.obs.late),
                   !.log = Append(@, [op |-> "New", stream |-> M.stream + 1])]

\* The sequence decision of AssembleWithContext once nextSeq is valid: the
\* segment is sent at once unless it starts after nextSeq
contiguous(nextSeq, seq) == Difference(nextSeq, seq) <= 0

\* AssembleWithContext, the end: nextSeq moves to what sendToConnection
\* returned, and one further for a FIN
assembleNextSeq(S, d, t) ==
    IF S.action.nextSeq # invalidSequence
    THEN SetHalf(S, d, [Half(S, d) EXCEPT !.nextSeq = IF t.FIN THEN Add(S.action.nextSeq, 1)
                                                       ELSE S.action.nextSeq])
    ELSE S

assembleSend(H, d, t) ==
    assembleNextSeq(IF Len(H.ret) > 0 THEN sendToConnection(H, d) ELSE H, d, t)

\* AssembleWithContext, an accepted segment on an open half: the sequence
\* decision (send at once or queue) and handleBytes
assembleSequence(M, d, t, timestamp, start) ==
    LET h2 == Half(M, d)
        first == h2.nextSeq = invalidSequence
        seq == IF first /\ t.SYN THEN Add(t.seq, 1) ELSE t.seq
        h3 == IF first /\ (t.SYN \/ start) THEN [h2 EXCEPT !.nextSeq = seq] ELSE h2
        queue == IF first THEN ~(t.SYN \/ start) ELSE ~contiguous(h2.nextSeq, t.seq)
    IN  assembleSend(
            handleBytes([SetHalf(M, d, h3)
                         EXCEPT !.action = [nextSeq |-> invalidSequence, queue |-> queue],
                                !.obs[d].base = IF first THEN h3.nextSeq ELSE @,
                                !.obs[d].sent = @ \cup {Add(seq, i - 1) : i \in 1..Len(t.bytes)},
                                !.obs[d].ends = @ \/ t.FIN \/ t.RST,
                                !.obs[d].syn = @ \/ (first /\ t.SYN)],
                        d, t.bytes, seq, timestamp, t.SYN, t.RST \/ t.FIN),
            d, t)

\* AssembleWithContext that handles the segment whatever Stream.Accept returns
assembleAcceptAll(M1, d, t, timestamp, accept) ==
    IF Half(M1, d).closed THEN M1
    ELSE assembleSequence(
             SetHalf(M1, d, IF t.ACK THEN [Half(M1, d) EXCEPT !.ackSeq = t.ack]
                            ELSE Half(M1, d)),
             d, t, timestamp,
             (Half(M1, d).nextSeq = invalidSequence /\ t.SYN) \/ accept = "start")

\* AssembleWithContext, once the connection is found and lastSeen updated:
\* Stream.Accept, the closed half, ackSeq
assembleAccept(M1, d, t, timestamp, accept) ==
    IF accept = "reject" \/ Half(M1, d).closed THEN M1
    ELSE assembleSequence(
             SetHalf(M1, d, IF t.ACK THEN [Half(M1, d) EXCEPT !.ackSeq = t.ack]
                            ELSE Half(M1, d)),
             d, t, timestamp,
             (Half(M1, d).nextSeq = invalidSequence /\ t.SYN) \/ accept = "start")

assembleLastSeen(G, d, timestamp) ==
    IF Half(G, d).lastSeen < timestamp
    THEN SetHalf(G, d, [Half(G, d) EXCEPT !.lastSeen = timestamp])
    ELSE G

\* AssembleWithContext for the segment t of direction d; accept is what
\* Stream.Accept does: "reject", "accept", or "start" (accept and set *start)
AssembleWithContext(M0, d, t, timestamp, accept) ==
    assembleAccept(assembleLastSeen(getConnection([M0 EXCEPT !.ret = <<>>], timestamp),
                                    d, timestamp),
                   d, t, timestamp, accept)

(***************************************************************************)
(* Inputs.                                                                 *)
(***************************************************************************)
Payload(n, tag) == [i \in 1..n |-> tag]

Segment(seq, n, tag, flag, d) ==
    [seq |-> seq, bytes |-> Payload(n, tag), SYN |-> flag = "SYN", FIN |-> flag = "FIN",
     RST |-> flag = "RST", ACK |-> ~(flag = "SYN" /\ d = "c2s"), ack |-> Add(Isn, 1)]

\* The segments of the client: a SYN at Isn, data from the sequence number of
\* the SYN on, FIN with or without payload, RST
ClientSegments ==
    {Segment(Isn, 0, 0, "SYN", "c2s")}
    \cup {Segment(Add(Isn, o), n, 0, "", "c2s") :
             o \in 0..MaxOffset, n \in 1..MaxPayload}
    \cup {Segment(Add(Isn, o), n, 0, "FIN", "c2s") : o \in {1, MaxOffset}, n \in 0..1}
    \cup {Segment(Add(Isn, 1), 0, 0, "RST", "c2s")}

\* The segments of the server: the same code handles them, so a few suffice
ServerSegments ==
    {Segment(Isn, 0, 0, "SYN", "s2c"),
     Segment(Add(Isn, 1), 1, 0, "", "s2c"),
     Segment(Add(Isn, 1), 0, 0, "FIN", "s2c")}

\* The segments whose bytes lie in Isn .. Isn + MaxOffset
Segments(d) ==
    {t \in (IF d = "c2s" THEN ClientSegments ELSE ServerSegments) :
        Difference(Isn, t.seq) + Len(t.bytes) <= MaxOffset + 1}

\* Capture timestamps increase with every call; a flush is called with T and
\* TC before or after all of them (0 is the zero time)
FlushT == {2, MaxCalls + 1}
FlushTC == {0, MaxCalls + 1}

\* AssemblerOptions, and the consumer: the toKeep it sets in ReassembledSG and
\* what its ReassemblyComplete returns
Options ==
    [MaxBufferedPagesPerConnection : {0, 2}, MaxBufferedPagesTotal : {0},
     toKeep : {-1, 0}, complete : BOOLEAN]

\* A consumer that calls KeepFrom with an offset inside the delivery
KeepOptions ==
    [MaxBufferedPagesPerConnection : {0}, MaxBufferedPagesTotal : {0},
     toKeep : 1..MaxKeep, complete : {FALSE}]

(***************************************************************************)
(* Several assemblers on one StreamPool: what they share.  A connection is *)
(* [mu, s2c, c2s]: mu is the assembler that holds connection.mu (0 when    *)
(* it is free), a half is [closed, queued, lastSeen] with queued the       *)
(* number of pages linked from half.first and lastSeen whether a segment  *)
(* has set it.  An assembler is [at, op, conn, dir, todo, remove]: its *)
(* position in the call op, the connection it works on, the direction of   *)
(* its segment, the halves a flush has still to visit, and the remove flag *)
(* of FlushWithOptions.                                                    *)
(***************************************************************************)
Assemblers == 1..NumAssemblers
ConnIds == 1..MaxConns

sharedHalf == [closed |-> FALSE, queued |-> 0, lastSeen |-> FALSE]
sharedConn == [mu |-> 0, s2c |-> sharedHalf, c2s |-> sharedHalf]
idle == [at |-> "idle", op |-> "none", conn |-> 0, dir |-> "c2s", todo |-> <<>>,
         remove |-> FALSE]

(***************************************************************************)
(* The reader pipeline: the two tcpReaders of one tcpConnection, the byte  *)
(* channel of each, and the factory that counts the readers.  A reader is  *)
(* [at, late, ok, data, p, dataCpy, clientData, serverData, saved, raw,    *)
(* colored] with at its position in Run, Read or Cleanup, ok and dataCpy   *)
(* the locals of Read, p the length of the buffer Read was given, raw and  *)
(* colored the arguments Cleanup evaluates for saveConnection; ret, got,   *)
(* eof, lateReads and cleanups record what Read has returned and how often *)
(* Cleanup has run.  A byte is <<r, k>>: the k-th byte sent to reader r.   *)
(***************************************************************************)
Readers == {"client", "server"}
isClient(r) == r = "client"

Chunk(r, from, n) == [i \in 1..n |-> <<r, from + i>>]

newReader ==
    [at |-> "Run", late |-> FALSE, ok |-> TRUE, data |-> <<>>, p |-> 0,
     dataCpy |-> <<>>, clientData |-> <<>>, serverData |-> <<>>, saved |-> FALSE,
     raw |-> <<>>, colored |-> <<>>,
     ret |-> [n |-> 0, err |-> "none"], got |-> <<>>, eof |-> FALSE,
     lateReads |-> 0, cleanups |-> 0]

\* make(chan []byte, capacity): what is buffered, whether it was closed, and
\* how many chunks and bytes the stream consumer has sent
newChan == [buf |-> <<>>, closed |-> FALSE, sent |-> 0, chunks |-> 0]

newConnection ==
    [mu |-> "free", last |-> FALSE, conversationRaw |-> <<>>,
     conversationColored |-> <<>>, saveCalls |-> 0, file |-> <<>>]

\* one wg.Add(1) and one numActive++ for each reader the factory has started
newFactory ==
    [mu |-> "free", numActive |-> Cardinality(Readers), wg |-> Cardinality(Readers)]

(***************************************************************************)
(* The state machine.                                                      *)
(***************************************************************************)
noPacket == [id |-> 0, seq |-> 0, bytes |-> <<>>, seen |-> 0, start |-> FALSE,
             end |-> FALSE, pkt |-> FALSE]

\* The assembler and the pool as a top-level call finds them
Machine ==
    [c2s |-> c2s, s2c |-> s2c, pc |-> pc, pool |-> pool, stream |-> stream,
     opts |-> opts, obs |-> obs, lp |-> noPacket, ret |-> <<>>,
     sg |-> [Skip |-> 0, saved |-> 0, toKeep |-> -1, end |-> FALSE,
             queuedBytes |-> 0, queuedPackets |-> 0, overlapBytes |-> 0,
             overlapPackets |-> 0],
     action |-> [nextSeq |-> invalidSequence, queue |-> TRUE],
     log |-> <<>>, flushed |-> FALSE, closed |-> FALSE, returned |-> FALSE,
     flushes |-> 0, closes |-> 0]

Return(M, call) ==
    /\ c2s' = M.c2s
    /\ s2c' = M.s2c
    /\ pc' = M.pc
    /\ pool' = M.pool
    /\ stream' = M.stream
    /\ obs' = M.obs
    /\ calls' = M.log
    /\ lastCall' = call
    /\ step' = step + 1
    /\ UNCHANGED opts
    /\ UNCHANGED <<sharedVars, readerVars>>

\* NewAssembler with one of the given options, an empty pool, and the readers
\* of a connection as the factory starts them
InitWith(options) ==
    /\ c2s = newHalf(0)
    /\ s2c = newHalf(0)
    /\ pc = newPageCache
    /\ pool = FALSE
    /\ stream = 0
    /\ opts \in options
    /\ calls = <<>>
    /\ lastCall = [kind |-> "none"]
    /\ obs = newConnObs(FALSE)
    /\ step = 0
    /\ conns = [c \in ConnIds |-> sharedConn]
    /\ connPool = [conn |-> 0, made |-> 0]
    /\ asm = [a \in Assemblers |-> idle]
    /\ readers = [r \in Readers |-> newReader]
    /\ bytesChan = [r \in Readers |-> newChan]
    /\ parent = newConnection
    /\ factory = newFactory

Init == InitWith(Options)

Assemble ==
    /\ step < MaxCalls
    /\ \E d \in Dirs, accept \in {"reject", "accept", "start"} :
         \E t \in Segments(d) :
            \* setting *start matters only before the stream has started
            /\ accept = "start" => (~pool \/ Half(Machine, d).nextSeq = invalidSequence) /\ ~t.SYN
            /\ Return(AssembleWithContext(Machine, d, t, step + 1, accept),
                      [kind |-> "AssembleWithContext", dir |-> d, t |-> t, accept |-> accept])

FlushReturn(F, T, TC) ==
    Return(F, [kind |-> "FlushWithOptions", T |-> T, TC |-> TC,
               flushed |-> F.flushes, closed |-> F.closes])

Flush ==
    /\ step < MaxCalls
    /\ \E T \in FlushT, TC \in FlushTC :
         FlushReturn(FlushWithOptions([Machine EXCEPT !.obs.flushed = TRUE], T, TC), T, TC)

FlushAllReturn(F) == Return(F, [kind |-> "FlushAll", closed |-> F.closes])

FlushAllCall ==
    /\ step < MaxCalls
    /\ FlushAllReturn(FlushAll([Machine EXCEPT !.obs.flushed = TRUE]))

Next == Assemble \/ Flush \/ FlushAllCall

Spec == Init /\ [][Next]_vars

\* The assembler with a consumer that keeps the bytes from offset toKeep on
KeepInit == InitWith(KeepOptions)

SpecKeep == KeepInit /\ [][Next]_vars

(***************************************************************************)
(* The state machine of the assemblers that share a pool.  Every step is   *)
(* one assembler moving from one position of its call to the next; what a  *)
(* segment or a consumer decides is a choice.                              *)
(***************************************************************************)
\* The half an assembler works on: the direction of its segment, or the half
\* the flush is visiting
CurDir(a) == IF asm[a].op = "AssembleWithContext" THEN asm[a].dir ELSE Head(asm[a].todo)
CurHalf(a) == IF CurDir(a) = "c2s" THEN conns[asm[a].conn].c2s ELSE conns[asm[a].conn].s2c

WriteHalf(a, h) ==
    conns' = [conns EXCEPT ![asm[a].conn] =
                 IF CurDir(a) = "c2s" THEN [@ EXCEPT !.c2s = h] ELSE [@ EXCEPT !.s2c = h]]

Goto(a, at) == asm' = [asm EXCEPT ![a].at = at]

\* Where a call goes on after sendToConnection or closeHalfConnection
ReturnPoint(op) ==
    CASE op = "AssembleWithContext" -> "Unlock"
      [] op = "FlushWithOptions" -> "flushClose"
      [] OTHER -> "drain"

\* StreamPool.remove
poolRemove(c) == IF connPool.conn = c THEN [connPool EXCEPT !.conn = 0] ELSE connPool

\* Mutex.Lock returns once no assembler holds the mutex
mutexFree(c) == conns[c].mu = 0

\* AssembleWithContext, getConnection: the connection of the key, created when
\* the pool does not hold one
CallAssemble(a) ==
    /\ UNCHANGED <<assemblerVars, readerVars>>
    /\ asm[a].at = "idle"
    /\ \E d \in Dirs :
         IF connPool.conn # 0
         THEN /\ asm' = [asm EXCEPT ![a] = [idle EXCEPT !.at = "Lock",
                                                         !.op = "AssembleWithContext",
                                                         !.conn = connPool.conn,
                                                         !.dir = d]]
              /\ UNCHANGED connPool
         ELSE /\ connPool.made < MaxConns
              /\ connPool' = [conn |-> connPool.made + 1, made |-> connPool.made + 1]
              /\ asm' = [asm EXCEPT ![a] = [idle EXCEPT !.at = "Lock",
                                                         !.op = "AssembleWithContext",
                                                         !.conn = connPool.made + 1,
                                                         !.dir = d]]
    /\ UNCHANGED conns

\* FlushWithOptions and FlushAll, connPool.connections(): the connection the
\* pool holds; the halves are visited in the order s2c, c2s
CallFlush(a) ==
    /\ UNCHANGED <<assemblerVars, readerVars>>
    /\ asm[a].at = "idle"
    /\ connPool.conn # 0
    /\ \E op \in {"FlushWithOptions", "FlushAll"} :
         asm' = [asm EXCEPT ![a] = [idle EXCEPT !.at = "Lock", !.op = op,
                                                !.conn = connPool.conn,
                                                !.todo = <<"s2c", "c2s">>]]
    /\ UNCHANGED <<conns, connPool>>

\* An assembler that enters the critical section without waiting for the
\* mutex
LockAtOnce(a) ==
    /\ UNCHANGED <<assemblerVars, readerVars>>
    /\ asm[a].at = "Lock"
    /\ conns' = [conns EXCEPT ![asm[a].conn].mu = a]
    /\ Goto(a, CASE asm[a].op = "AssembleWithContext" -> "Accept"
                  [] asm[a].op = "FlushWithOptions" -> "flushClose"
                  [] OTHER -> "drain")
    /\ UNCHANGED connPool

\* conn.mu.Lock()
Lock(a) ==
    /\ UNCHANGED <<assemblerVars, readerVars>>
    /\ asm[a].at = "Lock"
    /\ mutexFree(asm[a].conn)
    /\ conns' = [conns EXCEPT ![asm[a].conn].mu = a]
    /\ Goto(a, CASE asm[a].op = "AssembleWithContext" -> "Accept"
                  [] asm[a].op = "FlushWithOptions" -> "flushClose"
                  [] OTHER -> "drain")
    /\ UNCHANGED connPool

\* AssembleWithContext: lastSeen, Stream.Accept, the closed half
Accept(a) ==
    /\ UNCHANGED <<assemblerVars, readerVars>>
    /\ asm[a].at = "Accept"
    /\ \E later \in BOOLEAN, ok \in BOOLEAN :
         /\ IF later THEN WriteHalf(a, [CurHalf(a) EXCEPT !.lastSeen = TRUE])
                     ELSE UNCHANGED conns
         /\ Goto(a, IF ~ok \/ CurHalf(a).closed THEN "Unlock" ELSE "handleBytes")
    /\ UNCHANGED connPool

\* AssembleWithContext: the segment is queued, or sent with the queued pages
\* that continue it, or dropped
HandleBytes(a) ==
    /\ UNCHANGED <<assemblerVars, readerVars>>
    /\ asm[a].at = "handleBytes"
    /\ \/ /\ CurHalf(a).queued < MaxQueued
          /\ WriteHalf(a, [CurHalf(a) EXCEPT !.queued = @ + 1])
          /\ Goto(a, "Unlock")
       \/ /\ \E k \in 0..CurHalf(a).queued :
                WriteHalf(a, [CurHalf(a) EXCEPT !.queued = @ - k])
          /\ Goto(a, "ReassembledSG")
       \/ /\ UNCHANGED conns
          /\ Goto(a, "Unlock")
    /\ UNCHANGED connPool

\* sendToConnection: Stream.ReassembledSG returns; the half is closed when
\* the last thing sent had End set
ReassembledSGReturns(a) ==
    /\ UNCHANGED <<assemblerVars, readerVars>>
    /\ asm[a].at = "ReassembledSG"
    /\ \E end \in BOOLEAN :
         Goto(a, IF end THEN "closeHalfConnection" ELSE ReturnPoint(asm[a].op))
    /\ UNCHANGED <<conns, connPool>>

\* closeHalfConnection: half.closed is set; ReassemblyComplete is called once
\* both halves are closed
CloseHalfConnection(a) ==
    /\ UNCHANGED <<assemblerVars, readerVars>>
    /\ asm[a].at = "closeHalfConnection"
    /\ WriteHalf(a, [CurHalf(a) EXCEPT !.closed = TRUE])
    /\ Goto(a, IF conns'[asm[a].conn].s2c.closed /\ conns'[asm[a].conn].c2s.closed
               THEN "ReassemblyComplete" ELSE ReturnPoint(asm[a].op))
    /\ UNCHANGED connPool

\* closeHalfConnection: Stream.ReassemblyComplete returns; the connection
\* leaves the pool when it returned true
ReassemblyCompleteReturns(a) ==
    /\ UNCHANGED <<assemblerVars, readerVars>>
    /\ asm[a].at = "ReassemblyComplete"
    /\ \E remove \in BOOLEAN :
         connPool' = IF remove THEN poolRemove(asm[a].conn) ELSE connPool
    /\ Goto(a, ReturnPoint(asm[a].op))
    /\ UNCHANGED conns

\* FlushWithOptions: flushClose for the next half, and the remove test
FlushClose(a) ==
    /\ UNCHANGED <<assemblerVars, readerVars>>
    /\ asm[a].at = "flushClose"
    /\ \/ /\ asm[a].todo = <<>>
          /\ \E old \in BOOLEAN :
               asm' = [asm EXCEPT ![a].at = "Unlock",
                                  ![a].remove = /\ conns[asm[a].conn].s2c.closed
                                                /\ conns[asm[a].conn].c2s.closed
                                                /\ old]
          /\ UNCHANGED conns
       \/ /\ asm[a].todo # <<>>
          /\ CurHalf(a).closed
          /\ asm' = [asm EXCEPT ![a].todo = Tail(@)]
          /\ UNCHANGED conns
       \/ /\ asm[a].todo # <<>>
          /\ ~CurHalf(a).closed
          /\ CurHalf(a).queued > 0
          /\ \E k \in 1..CurHalf(a).queued :
               WriteHalf(a, [CurHalf(a) EXCEPT !.queued = @ - k])
          /\ Goto(a, "ReassembledSG")
       \/ /\ asm[a].todo # <<>>
          /\ ~CurHalf(a).closed
          /\ CurHalf(a).queued = 0
          /\ Goto(a, "closeHalfConnection")
          /\ UNCHANGED conns
       \/ /\ asm[a].todo # <<>>
          /\ ~CurHalf(a).closed
          /\ asm' = [asm EXCEPT ![a].todo = Tail(@)]
          /\ UNCHANGED conns
    /\ UNCHANGED connPool

\* FlushAll: skipFlush until the half is closed, for each half
Drain(a) ==
    /\ UNCHANGED <<assemblerVars, readerVars>>
    /\ asm[a].at = "drain"
    /\ \/ /\ asm[a].todo = <<>>
          /\ Goto(a, "Unlock")
          /\ UNCHANGED conns
       \/ /\ asm[a].todo # <<>>
          /\ CurHalf(a).closed
          /\ asm' = [asm EXCEPT ![a].todo = Tail(@)]
          /\ UNCHANGED conns
       \/ /\ asm[a].todo # <<>>
          /\ ~CurHalf(a).closed
          /\ CurHalf(a).queued = 0
          /\ Goto(a, "closeHalfConnection")
          /\ UNCHANGED conns
       \/ /\ asm[a].todo # <<>>
          /\ ~CurHalf(a).closed
          /\ CurHalf(a).queued > 0
          /\ \E k \in 1..CurHalf(a).queued :
               WriteHalf(a, [CurHalf(a) EXCEPT !.queued = @ - k])
          /\ Goto(a, "ReassembledSG")
    /\ UNCHANGED connPool

\* conn.mu.Unlock()
Unlock(a) ==
    /\ UNCHANGED <<assemblerVars, readerVars>>
    /\ asm[a].at = "Unlock"
    /\ conns' = [conns EXCEPT ![asm[a].conn].mu = 0]
    /\ asm' = [asm EXCEPT ![a] = IF asm[a].remove THEN [@ EXCEPT !.at = "remove"] ELSE idle]
    /\ UNCHANGED connPool

\* FlushWithOptions: connPool.remove(conn), after the mutex is released
Remove(a) ==
    /\ UNCHANGED <<assemblerVars, readerVars>>
    /\ asm[a].at = "remove"
    /\ connPool' = poolRemove(asm[a].conn)
    /\ asm' = [asm EXCEPT ![a] = idle]
    /\ UNCHANGED conns

SharedInit ==
    /\ Init
    /\ opts = [MaxBufferedPagesPerConnection |-> 0, MaxBufferedPagesTotal |-> 0,
               toKeep |-> -1, complete |-> FALSE]

SharedNext ==
    \E a \in Assemblers :
        \/ CallAssemble(a)
        \/ CallFlush(a)
        \/ Lock(a)
        \/ Accept(a)
        \/ HandleBytes(a)
        \/ ReassembledSGReturns(a)
        \/ CloseHalfConnection(a)
        \/ ReassemblyCompleteReturns(a)
        \/ FlushClose(a)
        \/ Drain(a)
        \/ Unlock(a)
        \/ Remove(a)

SpecShared == SharedInit /\ [][SharedNext]_vars

(***************************************************************************)
(* The state machine of the reader pipeline.  Every step is one reader     *)
(* moving from one position of Run, Read or Cleanup to the next, or the    *)
(* stream consumer sending a chunk on a byte channel or closing it.        *)
(***************************************************************************)
Reader(r) == readers[r]

BufSizes == 1..MaxBuf

\* for ok && len(h.data) == 0
receiving(h) == h.ok /\ Len(h.data) = 0

\* l := copy(p, h.data)
copyShort(h) == Min(h.p, Len(h.data)) - 1
copied(h) == Min(h.p, Len(h.data))

\* h.data = h.data[l:]
residualDropped(h, l) == <<>>
residual(h, l) == Drop(h.data, l)

\* if h.isClient { ... saveConnection ... }
savesAlways(r) == TRUE
savesConnection(r) == isClient(r)

\* f.numActive-- of the half that closes first
firstDecTwice(f) == [f EXCEPT !.numActive = @ - 2]
firstDec(f) == [f EXCEPT !.numActive = @ - 1]

\* h.parent.Unlock() of the half that closes first
firstKeepsLock(c) == c
firstUnlock(c) == [c EXCEPT !.mu = "free"]

\* where a Read returns to: the loop of Run, or the caller that read after Run
returnTo(h, at) == IF h.late THEN "done" ELSE at

\* Run: readStream reads through a bufio.Reader, which calls Read with its buffer
ReadCall(r) ==
    /\ UNCHANGED <<assemblerVars, sharedVars>>
    /\ Reader(r).at = "Run"
    /\ \E n \in BufSizes :
         readers' = [readers EXCEPT ![r].at = "receive", ![r].p = n, ![r].ok = TRUE,
                                    ![r].late = FALSE]
    /\ UNCHANGED <<bytesChan, parent, factory>>

\* a Read on a reader whose Run has returned
LateRead(r) ==
    /\ UNCHANGED <<assemblerVars, sharedVars>>
    /\ Reader(r).at = "done"
    /\ Reader(r).lateReads < MaxLateReads
    /\ \E n \in BufSizes :
         readers' = [readers EXCEPT ![r].at = "receive", ![r].p = n, ![r].ok = TRUE,
                                    ![r].late = TRUE, ![r].lateReads = @ + 1]
    /\ UNCHANGED <<bytesChan, parent, factory>>

\* h.data, ok = <-h.bytes: blocks while the channel is open and empty
Receive(r) ==
    /\ UNCHANGED <<assemblerVars, sharedVars>>
    /\ Reader(r).at = "receive"
    /\ receiving(Reader(r))
    /\ \/ /\ bytesChan[r].buf # <<>>
          /\ readers' = [readers EXCEPT ![r].data = Head(bytesChan[r].buf), ![r].ok = TRUE]
          /\ bytesChan' = [bytesChan EXCEPT ![r].buf = Tail(@)]
       \/ /\ bytesChan[r].buf = <<>>
          /\ bytesChan[r].closed
          /\ readers' = [readers EXCEPT ![r].data = <<>>, ![r].ok = FALSE]
          /\ UNCHANGED bytesChan
    /\ UNCHANGED <<parent, factory>>

\* return 0, io.EOF; in Run the error ends the loop and the deferred Cleanup runs
ReadEOF(r) ==
    /\ UNCHANGED <<assemblerVars, sharedVars>>
    /\ Reader(r).at = "receive"
    /\ ~receiving(Reader(r))
    /\ ~Reader(r).ok \/ Len(Reader(r).data) = 0
    /\ readers' = [readers EXCEPT ![r].at = returnTo(Reader(r), "Cleanup"),
                                  ![r].ret = [n |-> 0, err |-> "EOF"],
                                  ![r].eof = TRUE, ![r].p = 0]
    /\ UNCHANGED <<bytesChan, parent, factory>>

\* l := copy(p, h.data); h.data = h.data[l:]; dataCpy := p[:l]
Copy(r) ==
    /\ UNCHANGED <<assemblerVars, sharedVars>>
    /\ Reader(r).at = "receive"
    /\ ~receiving(Reader(r))
    /\ ~(~Reader(r).ok \/ Len(Reader(r).data) = 0)
    /\ readers' = [readers EXCEPT ![r].at = "Lock",
                                  ![r].dataCpy = Take(Reader(r).data, copied(Reader(r))),
                                  ![r].data = residual(Reader(r), copied(Reader(r)))]
    /\ UNCHANGED <<bytesChan, parent, factory>>

\* h.parent.Lock() without waiting for the mutex
ReadLockAtOnce(r) ==
    /\ UNCHANGED <<assemblerVars, sharedVars>>
    /\ Reader(r).at = "Lock"
    /\ parent' = [parent EXCEPT !.mu = r]
    /\ readers' = [readers EXCEPT ![r].at = "conversationRaw"]
    /\ UNCHANGED <<bytesChan, factory>>

\* h.parent.Lock()
ReadLock(r) ==
    /\ UNCHANGED <<assemblerVars, sharedVars>>
    /\ Reader(r).at = "Lock"
    /\ parent.mu = "free"
    /\ parent' = [parent EXCEPT !.mu = r]
    /\ readers' = [readers EXCEPT ![r].at = "conversationRaw"]
    /\ UNCHANGED <<bytesChan, factory>>

\* conversationRaw.Write(dataCpy); conversationColored.WriteString(colour + dataCpy + Reset)
WriteConversation(r) ==
    /\ UNCHANGED <<assemblerVars, sharedVars>>
    /\ Reader(r).at = "conversationRaw"
    /\ parent' = [parent EXCEPT
                    !.conversationRaw = @ \o Reader(r).dataCpy,
                    !.conversationColored =
                        Append(@, <<IF isClient(r) THEN "Red" ELSE "Blue", Reader(r).dataCpy>>)]
    /\ readers' = [readers EXCEPT ![r].at = "data"]
    /\ UNCHANGED <<bytesChan, factory>>

\* h.clientData.Write(dataCpy) or h.serverData.Write(dataCpy)
WriteData(r) ==
    /\ UNCHANGED <<assemblerVars, sharedVars>>
    /\ Reader(r).at = "data"
    /\ readers' = [readers EXCEPT
                     ![r].at = "Unlock",
                     ![r].clientData = IF isClient(r) THEN @ \o Reader(r).dataCpy ELSE @,
                     ![r].serverData = IF isClient(r) THEN @ ELSE @ \o Reader(r).dataCpy]
    /\ UNCHANGED <<bytesChan, parent, factory>>

\* h.parent.Unlock(); return l, nil
ReadUnlock(r) ==
    /\ UNCHANGED <<assemblerVars, sharedVars>>
    /\ Reader(r).at = "Unlock"
    /\ parent' = [parent EXCEPT !.mu = "free"]
    /\ readers' = [readers EXCEPT
                     ![r].at = returnTo(Reader(r), "Run"),
                     ![r].ret = [n |-> Len(Reader(r).dataCpy), err |-> "nil"],
                     ![r].got = @ \o Reader(r).dataCpy,
                     ![r].p = 0, ![r].dataCpy = <<>>]
    /\ UNCHANGED <<bytesChan, factory>>

\* Cleanup is entered: if h.isClient
Cleanup(r) ==
    /\ UNCHANGED <<assemblerVars, sharedVars>>
    /\ Reader(r).at = "Cleanup"
    /\ readers' = [readers EXCEPT
                     ![r].at = IF savesConnection(r) THEN "ConversationRaw" ELSE "parentLock",
                     ![r].cleanups = @ + 1]
    /\ UNCHANGED <<bytesChan, parent, factory>>

\* h.ConversationRaw(): the bytes of conversationRaw, read under the parent's mutex
ConversationRaw(r) ==
    /\ UNCHANGED <<assemblerVars, sharedVars>>
    /\ Reader(r).at = "ConversationRaw"
    /\ parent.mu = "free"
    /\ readers' = [readers EXCEPT ![r].at = "ConversationColored",
                                  ![r].raw = parent.conversationRaw]
    /\ UNCHANGED <<bytesChan, parent, factory>>

\* h.ConversationColored()
ConversationColored(r) ==
    /\ UNCHANGED <<assemblerVars, sharedVars>>
    /\ Reader(r).at = "ConversationColored"
    /\ parent.mu = "free"
    /\ readers' = [readers EXCEPT ![r].at = "saveConnection",
                                  ![r].colored = parent.conversationColored]
    /\ UNCHANGED <<bytesChan, parent, factory>>

\* saveConnection(raw, colored, ...): nothing is saved for zero bytes, opening
\* the file may fail; h.saved = true either way
SaveConnection(r) ==
    /\ UNCHANGED <<assemblerVars, sharedVars>>
    /\ Reader(r).at = "saveConnection"
    /\ \E err \in BOOLEAN :
         /\ err => Reader(r).raw # <<>>
         /\ parent' = [parent EXCEPT
                         !.saveCalls = @ + 1,
                         !.file = IF Reader(r).raw # <<>> /\ ~err
                                  THEN @ \o Reader(r).colored ELSE @]
         /\ readers' = [readers EXCEPT ![r].at = "parentLock", ![r].saved = TRUE]
    /\ UNCHANGED <<bytesChan, factory>>

\* h.parent.Lock(); if !h.parent.last
CleanupLock(r) ==
    /\ UNCHANGED <<assemblerVars, sharedVars>>
    /\ Reader(r).at = "parentLock"
    /\ parent.mu = "free"
    /\ parent' = [parent EXCEPT !.mu = r]
    /\ readers' = [readers EXCEPT ![r].at = IF ~parent.last THEN "firstDone"
                                            ELSE "secondUnlock"]
    /\ UNCHANGED <<bytesChan, factory>>

\* the half that closes first: f.wg.Done()
FirstDone(r) ==
    /\ UNCHANGED <<assemblerVars, sharedVars>>
    /\ Reader(r).at = "firstDone"
    /\ factory' = [factory EXCEPT !.wg = @ - 1]
    /\ readers' = [readers EXCEPT ![r].at = "firstFLock"]
    /\ UNCHANGED <<bytesChan, parent>>

\* f.Lock()
FirstFLock(r) ==
    /\ UNCHANGED <<assemblerVars, sharedVars>>
    /\ Reader(r).at = "firstFLock"
    /\ factory.mu = "free"
    /\ factory' = [factory EXCEPT !.mu = r]
    /\ readers' = [readers EXCEPT ![r].at = "firstDec"]
    /\ UNCHANGED <<bytesChan, parent>>

\* f.numActive--
FirstDec(r) ==
    /\ UNCHANGED <<assemblerVars, sharedVars>>
    /\ Reader(r).at = "firstDec"
    /\ factory' = firstDec(factory)
    /\ readers' = [readers EXCEPT ![r].at = "firstFUnlock"]
    /\ UNCHANGED <<bytesChan, parent>>

\* f.Unlock()
FirstFUnlock(r) ==
    /\ UNCHANGED <<assemblerVars, sharedVars>>
    /\ Reader(r).at = "firstFUnlock"
    /\ factory' = [factory EXCEPT !.mu = "free"]
    /\ readers' = [readers EXCEPT ![r].at = "last"]
    /\ UNCHANGED <<bytesChan, parent>>

\* h.parent.last = true
SetLast(r) ==
    /\ UNCHANGED <<assemblerVars, sharedVars>>
    /\ Reader(r).at = "last"
    /\ parent' = [parent EXCEPT !.last = TRUE]
    /\ readers' = [readers EXCEPT ![r].at = "firstUnlock"]
    /\ UNCHANGED <<bytesChan, factory>>

\* h.parent.Unlock(); return
FirstUnlock(r) ==
    /\ UNCHANGED <<assemblerVars, sharedVars>>
    /\ Reader(r).at = "firstUnlock"
    /\ parent' = firstUnlock(parent)
    /\ readers' = [readers EXCEPT ![r].at = "done"]
    /\ UNCHANGED <<bytesChan, factory>>

\* the half that closes second: h.parent.Unlock()
SecondUnlock(r) ==
    /\ UNCHANGED <<assemblerVars, sharedVars>>
    /\ Reader(r).at = "secondUnlock"
    /\ parent' = [parent EXCEPT !.mu = "free"]
    /\ readers' = [readers EXCEPT ![r].at = "secondDone"]
    /\ UNCHANGED <<bytesChan, factory>>

\* f.wg.Done()
SecondDone(r) ==
    /\ UNCHANGED <<assemblerVars, sharedVars>>
    /\ Reader(r).at = "secondDone"
    /\ factory' = [factory EXCEPT !.wg = @ - 1]
    /\ readers' = [readers EXCEPT ![r].at = "secondFLock"]
    /\ UNCHANGED <<bytesChan, parent>>

\* f.Lock()
SecondFLock(r) ==
    /\ UNCHANGED <<assemblerVars, sharedVars>>
    /\ Reader(r).at = "secondFLock"
    /\ factory.mu = "free"
    /\ factory' = [factory EXCEPT !.mu = r]
    /\ readers' = [readers EXCEPT ![r].at = "secondDec"]
    /\ UNCHANGED <<bytesChan, parent>>

\* f.numActive--
SecondDec(r) ==
    /\ UNCHANGED <<assemblerVars, sharedVars>>
    /\ Reader(r).at = "secondDec"
    /\ factory' = [factory EXCEPT !.numActive = @ - 1]
    /\ readers' = [readers EXCEPT ![r].at = "secondFUnlock"]
    /\ UNCHANGED <<bytesChan, parent>>

\* f.Unlock(); Cleanup and Run return
SecondFUnlock(r) ==
    /\ UNCHANGED <<assemblerVars, sharedVars>>
    /\ Reader(r).at = "secondFUnlock"
    /\ factory' = [factory EXCEPT !.mu = "free"]
    /\ readers' = [readers EXCEPT ![r].at = "done"]
    /\ UNCHANGED <<bytesChan, parent>>

\* the stream consumer sends a chunk: blocks while the channel is full
Send(r) ==
    /\ UNCHANGED <<assemblerVars, sharedVars>>
    /\ ~bytesChan[r].closed
    /\ Len(bytesChan[r].buf) < ChanCap
    /\ bytesChan["client"].chunks + bytesChan["server"].chunks < MaxChunks
    /\ \E n \in 0..MaxChunk :
         bytesChan' = [bytesChan EXCEPT
                         ![r].buf = Append(@, Chunk(r, bytesChan[r].sent, n)),
                         ![r].sent = @ + n,
                         ![r].chunks = @ + 1]
    /\ UNCHANGED <<readers, parent, factory>>

\* the stream consumer closes the channel when its half is complete
Close(r) ==
    /\ UNCHANGED <<assemblerVars, sharedVars>>
    /\ ~bytesChan[r].closed
    /\ bytesChan' = [bytesChan EXCEPT ![r].closed = TRUE]
    /\ UNCHANGED <<readers, parent, factory>>

ReaderInit ==
    /\ Init
    /\ opts = [MaxBufferedPagesPerConnection |-> 0, MaxBufferedPagesTotal |-> 0,
               toKeep |-> -1, complete |-> FALSE]

\* the steps of the reader task and of a Read it has to answer
ReaderStep(r) ==
    \/ ReadCall(r)
    \/ Receive(r)
    \/ ReadEOF(r)
    \/ Copy(r)
    \/ ReadLock(r)
    \/ WriteConversation(r)
    \/ WriteData(r)
    \/ ReadUnlock(r)
    \/ Cleanup(r)
    \/ ConversationRaw(r)
    \/ ConversationColored(r)
    \/ SaveConnection(r)
    \/ CleanupLock(r)
    \/ FirstDone(r)
    \/ FirstFLock(r)
    \/ FirstDec(r)
    \/ FirstFUnlock(r)
    \/ SetLast(r)
    \/ FirstUnlock(r)
    \/ SecondUnlock(r)
    \/ SecondDone(r)
    \/ SecondFLock(r)
    \/ SecondDec(r)
    \/ SecondFUnlock(r)

ReaderNext ==
    \E r \in Readers :
        \/ ReaderStep(r)
        \/ LateRead(r)
        \/ Send(r)
        \/ Close(r)

SpecReader == ReaderInit /\ [][ReaderNext]_vars

\* Every reader task that can take a step again and again takes one (the Go
\* scheduler runs every runnable goroutine, and a goroutine waiting for a
\* sync.Mutex is handed it once it has starved), and the stream consumer
\* closes every byte channel.
ReaderFairness ==
    \A r \in Readers : SF_vars(ReaderStep(r)) /\ WF_vars(Close(r))

SpecReaderLive == ReaderInit /\ [][ReaderNext]_vars /\ ReaderFairness

(***************************************************************************)
(* Properties.                                                             *)
(***************************************************************************)
HalfOf(d) == IF d = "c2s" THEN c2s ELSE s2c

\* Neither buffer limit of AssemblerOptions is set
Unlimited ==
    opts.MaxBufferedPagesPerConnection = 0 /\ opts.MaxBufferedPagesTotal = 0

\* The last top-level call was AssembleWithContext; calls holds its callbacks
Assembled == lastCall.kind = "AssembleWithContext"
Ops == [i \in 1..Len(calls) |-> calls[i].op]

\* The sequence numbers of delivered bytes
Positions(bs) == [i \in 1..Len(bs) |-> bs[i][1]]

\* The TCP ordering of the accepted payload: the run of sequence numbers
\* without a gap that starts where the stream started
RECURSIVE Run(_, _)
Run(b, sent) == IF b \in sent THEN <<b>> \o Run(Add(b, 1), sent \ {b}) ELSE <<>>

Ideal(o) == IF o.base = invalidSequence THEN <<>> ELSE Run(o.base, o.sent)

\* No accepted segment carried bytes from before the start of the stream
NoEarlyData(o) ==
    o.base # invalidSequence => \A p \in o.sent : Difference(o.base, p) >= 0

\* C1: for the segments given to AssembleWithContext for one half, with no
\* flush in between, the bytes handed to ReassembledSG are the accepted
\* payload in TCP order.  Stated for its plainest case: no buffer limit, no
\* FIN or RST, no byte from before the start of the stream; then the sequence
\* numbers delivered are exactly the gap-free run from the start.
C1_ReassemblyIsTcpOrder ==
    \A d \in Dirs :
        (Unlimited /\ ~obs.flushed /\ ~obs[d].ends /\ NoEarlyData(obs[d]))
            => Positions(obs[d].delivered) = Ideal(obs[d])

Increasing(ps) == \A i \in 1..Len(ps) - 1 : Difference(ps[i], ps[i + 1]) > 0

\* C2: within one direction bytes reach the consumer in strictly increasing
\* sequence order (and only a flush skips bytes).  Stated for the ordering,
\* with no buffer limit set, so that the forced delivery a buffer limit asks
\* for plays no part, and for segments that carry no byte from before the
\* start of the stream: the sequence numbers of the bytes delivered in one
\* direction strictly increase.
C2_StrictSequenceOrder ==
    Unlimited =>
        \A d \in Dirs : NoEarlyData(obs[d]) => Increasing(Positions(obs[d].delivered))

\* C3: ReassemblyComplete is called at most once for a connection, exactly
\* when both halves are closed, and no ReassembledSG call for the stream
\* follows it.
C3_ReassemblyCompleteOnce ==
    /\ obs.complete <= 1
    /\ ~obs.late
    /\ (obs.complete = 1) <=> (c2s.closed /\ s2c.closed)

\* C3 witness: ReassemblyComplete was called after bytes were delivered, and
\* a later segment of the connection, not refused by the stream, caused no
\* callback
C3_CompletedThenCalled ==
    /\ obs.complete = 1
    /\ pool
    /\ \E d \in Dirs : obs[d].delivered # <<>>
    /\ Assembled
    /\ lastCall.accept # "reject"
    /\ calls = <<>>

\* C4: one AssembleWithContext call makes, in this order, at most one call
\* of StreamFactory.New, at most one of ReassembledSG and at most one of
\* ReassemblyComplete, all for the same stream.
C4_CallbackOrder ==
    Assembled =>
        /\ Ops \in {<<>>, <<"New">>, <<"ReassembledSG">>, <<"ReassemblyComplete">>,
                    <<"New", "ReassembledSG">>, <<"New", "ReassemblyComplete">>,
                    <<"ReassembledSG", "ReassemblyComplete">>,
                    <<"New", "ReassembledSG", "ReassemblyComplete">>}
        /\ \A i, j \in 1..Len(calls) : calls[i].stream = calls[j].stream

\* C4 witness: an AssembleWithContext call that delivered bytes and then
\* completed the stream
C4_DeliveredThenCompleted ==
    /\ Assembled
    /\ Ops = <<"ReassembledSG", "ReassemblyComplete">>
    /\ calls[1].data # <<>>

Contents(q) == [i \in 1..Len(q) |-> <<q[i].seq, q[i].bytes, q[i].end>>]

\* Two calls in a row with the same segment, both accepted by the stream
\* (b is the call being made: it finds the connection of a in the pool)
Same(a, b) ==
    /\ pool
    /\ a.kind = "AssembleWithContext"
    /\ b.kind = "AssembleWithContext"
    /\ a.dir = b.dir
    /\ a.t = b.t
    /\ a.accept # "reject"
    /\ b.accept = "accept"

Idempotent ==
    Same(lastCall, lastCall') =>
        \A d \in Dirs : lastCall.dir = d =>
            /\ obs'[d].delivered = obs[d].delivered
            /\ HalfOf(d)'.nextSeq = HalfOf(d).nextSeq
            /\ Contents(HalfOf(d)'.queue) = Contents(HalfOf(d).queue)

\* C5: a segment passed to AssembleWithContext a second time in a row
\* changes neither the bytes delivered, nor nextSeq, nor the queue contents
\* (stated with no buffer limit set).
C5_DuplicateIdempotent == [][Unlimited => Idempotent]_vars

\* The overlapBytes reported to the stream of direction d by the callbacks cs
RECURSIVE Reported(_, _)
Reported(cs, d) ==
    IF cs = <<>> THEN 0
    ELSE (IF Head(cs).op = "ReassembledSG" /\ Head(cs).dir = d
          THEN Head(cs).overlapBytes ELSE 0) + Reported(Tail(cs), d)

OverlapGrowth ==
    (lastCall'.kind = "AssembleWithContext" /\ pool /\ pool') =>
        \A d \in Dirs : lastCall'.dir = d =>
            HalfOf(d)'.overlapBytes + Reported(calls', d) - HalfOf(d).overlapBytes
                <= Len(lastCall'.t.bytes)

\* C6: byte accounting; in particular one segment makes overlapBytes (the
\* counter of the half plus what was reported to the stream) grow by no more
\* than the length of its payload.
C6_OverlapWithinPayload == [][OverlapGrowth]_vars

Ordered(q) ==
    \A i \in 1..Len(q) - 1 :
        Difference(Add(q[i].seq, Len(q[i].bytes)), q[i + 1].seq) >= 0

\* C7: the queued pages of an open half are strictly ordered by seq and no
\* two of them cover a common sequence number: each page ends at or before
\* the seq of the next.
C7_QueueOrdered == \A d \in Dirs : ~HalfOf(d).closed => Ordered(HalfOf(d).queue)

\* C8: when nextSeq is valid and the queue is not empty, the first queued
\* page starts after nextSeq (stated for an open half whose segments carried
\* no byte from before the start of the stream).
C8_HeadAfterNextSeq ==
    \A d \in Dirs :
        (/\ ~HalfOf(d).closed
         /\ HalfOf(d).nextSeq # invalidSequence
         /\ HalfOf(d).queue # <<>>
         /\ NoEarlyData(obs[d]))
            => Difference(HalfOf(d).nextSeq, HalfOf(d).queue[1].seq) > 0

\* C9: a closed half has an empty queue and an empty saved list.
C9_ClosedHalfEmpty ==
    \A d \in Dirs : HalfOf(d).closed => HalfOf(d).queue = <<>> /\ HalfOf(d).saved = <<>>

Held == c2s.queue \o c2s.saved \o s2c.queue \o s2c.saved
Ids(ps) == {ps[i].id : i \in 1..Len(ps)}
Free == {pc.free[i] : i \in 1..Len(pc.free)}

\* C10: between top-level calls used + |free| = size, no page is on the free
\* list twice, no page is held by two lists of the connection, and no page on
\* the free list is still reachable from a half's queue or saved list.
C10_PageOwnership ==
    pool =>
        /\ pc.used + Len(pc.free) = pc.size
        /\ \A i, j \in 1..Len(pc.free) : pc.free[i] = pc.free[j] => i = j
        /\ \A i, j \in 1..Len(Held) : Held[i].id = Held[j].id => i = j
        /\ Ids(Held) \cap Free = {}

\* C11: at the return of every top-level call, half.pages is the number of
\* pages in the queue plus the number of pages in the saved list (stated for
\* the halves that are still open).
C11_PagesCounted ==
    pool => \A d \in Dirs :
        ~HalfOf(d).closed => HalfOf(d).pages = Len(HalfOf(d).queue) + Len(HalfOf(d).saved)

\* The sequence numbers of the bytes held by the pages ps
PagePositions(ps) ==
    UNION {{Add(ps[i].seq, j - 1) : j \in 1..Len(ps[i].bytes)} : i \in 1..Len(ps)}

\* The sequence numbers of the bytes the callbacks cs handed to ReassembledSG
\* for direction d
RECURSIVE SentPositions(_, _)
SentPositions(cs, d) ==
    IF cs = <<>> THEN {}
    ELSE (IF Head(cs).op = "ReassembledSG" /\ Head(cs).dir = d
          THEN {Head(cs).data[i][1] : i \in 1..Len(Head(cs).data)} ELSE {})
         \cup SentPositions(Tail(cs), d)

FlushAllDrains ==
    (lastCall'.kind = "FlushAll" /\ pool) =>
        /\ c2s'.closed /\ s2c'.closed
        /\ \A d \in Dirs :
              ~HalfOf(d).closed =>
                  PagePositions(HalfOf(d).queue) \subseteq SentPositions(calls', d)

\* C12: FlushAll returns with both halves of the connection closed, and every
\* page that was queued in an open half when it started has been handed to
\* ReassembledSG.
C12_FlushAllDrains == [][FlushAllDrains]_vars

\* The connection is in the pool with a half that is still open
OpenInPool == pool /\ ~(c2s.closed /\ s2c.closed)

FlushAllCount ==
    lastCall'.kind = "FlushAll" => lastCall'.closed = IF OpenInPool THEN 1 ELSE 0

\* C13: FlushAll returns the number of connections it flushed or closed: a
\* connection of the pool whose two halves were closed before the call is
\* not counted.
C13_FlushAllCount == [][FlushAllCount]_vars

FlushCounts ==
    lastCall'.kind = "FlushWithOptions" =>
        /\ lastCall'.flushed <= IF pool THEN 1 ELSE 0
        /\ lastCall'.closed <= lastCall'.flushed

\* C14: FlushWithOptions returns (flushed, closed): flushed counts each
\* connection at most once, so it is at most the number of connections in
\* the pool, and closed counts the flushed connections that were closed, so
\* it is at most flushed.
C14_FlushCounts == [][FlushCounts]_vars

\* The ReassembledSG calls among the callbacks cs that are for direction d
RECURSIVE SGCalls(_, _)
SGCalls(cs, d) ==
    IF cs = <<>> THEN <<>>
    ELSE (IF Head(cs).op = "ReassembledSG" /\ Head(cs).dir = d THEN <<Head(cs)>> ELSE <<>>)
         \o SGCalls(Tail(cs), d)

\* The new bytes of a ReassembledSG call: what follows the saved bytes
NewData(c) == Positions(Drop(c.data, c.saved))

\* The head page of the queue q and the pages that follow it without a gap:
\* the sequence numbers of their bytes
RECURSIVE HeadRun(_, _)
HeadRun(q, next) ==
    IF q = <<>> \/ Head(q).seq # next THEN <<>>
    ELSE [i \in 1..Len(Head(q).bytes) |-> Add(Head(q).seq, i - 1)]
         \o HeadRun(Tail(q), Add(Head(q).seq, Len(Head(q).bytes)))

\* Direction d has a gap to flush: nextSeq is valid and the first queued page
\* starts after it and was seen before T
GapToFlush(d, T) ==
    /\ pool
    /\ ~HalfOf(d).closed
    /\ HalfOf(d).nextSeq # invalidSequence
    /\ HalfOf(d).queue # <<>>
    /\ Difference(HalfOf(d).nextSeq, HalfOf(d).queue[1].seq) > 0
    /\ HalfOf(d).queue[1].seen < T

FlushOverGap ==
    lastCall'.kind = "FlushWithOptions" =>
        \A d \in Dirs : GapToFlush(d, lastCall'.T) =>
            /\ SGCalls(calls', d) # <<>>
            /\ SGCalls(calls', d)[1].Skip
                   = Difference(HalfOf(d).nextSeq, HalfOf(d).queue[1].seq)
            /\ NewData(SGCalls(calls', d)[1])
                   = HeadRun(HalfOf(d).queue, HalfOf(d).queue[1].seq)
            /\ LET last == SGCalls(calls', d)[Len(SGCalls(calls', d))]
               IN  HalfOf(d)'.nextSeq
                      = Add(last.data[Len(last.data)][1], 1)
            /\ (~(c2s.lastSeen < lastCall'.TC) /\ ~(s2c.lastSeen < lastCall'.TC))
                  => (c2s'.closed = c2s.closed /\ s2c'.closed = s2c.closed)

\* C15: a flush over a gap.  When a half has a valid nextSeq n and its first
\* queued page starts at s > n and was seen before T, FlushWithOptions hands
\* that page and the pages that follow it without a gap to ReassembledSG in
\* one call with Skip = s - n, leaves nextSeq at the end of what it
\* delivered, and closes no half when neither half was last seen before TC.
C15_FlushOverGap == [][FlushOverGap]_vars

\* A ReassembledSG call among cs for direction d was marked as the end
EndSent(cs, d) == \E i \in 1..Len(SGCalls(cs, d)) : SGCalls(cs, d)[i].end

FlushOverGapUnlessEnd ==
    lastCall'.kind = "FlushWithOptions" =>
        \A d \in Dirs : GapToFlush(d, lastCall'.T) =>
            /\ SGCalls(calls', d) # <<>>
            /\ SGCalls(calls', d)[1].Skip
                   = Difference(HalfOf(d).nextSeq, HalfOf(d).queue[1].seq)
            /\ NewData(SGCalls(calls', d)[1])
                   = HeadRun(HalfOf(d).queue, HalfOf(d).queue[1].seq)
            /\ LET last == SGCalls(calls', d)[Len(SGCalls(calls', d))]
               IN  HalfOf(d)'.nextSeq
                      = Add(last.data[Len(last.data)][1], 1)
            /\ (~(c2s.lastSeen < lastCall'.TC) /\ ~(s2c.lastSeen < lastCall'.TC))
                  => \A e \in Dirs :
                         HalfOf(e)'.closed = (HalfOf(e).closed \/ EndSent(calls', e))

\* C15, amended: as C15, but a half is closed by the flush exactly when a
\* ReassembledSG call the flush made for it was marked as the end (the page
\* of a FIN or RST segment was the last one delivered).
C15_FlushOverGapUnlessEnd == [][FlushOverGapUnlessEnd]_vars

\* C15 witness: a flush has delivered bytes over a gap, with a positive Skip,
\* and left both halves open
C15_GapFlushed ==
    /\ lastCall.kind = "FlushWithOptions"
    /\ lastCall.TC = 0
    /\ ~c2s.closed /\ ~s2c.closed
    /\ \E i \in 1..Len(calls) :
          /\ calls[i].op = "ReassembledSG"
          /\ calls[i].Skip > 0
          /\ calls[i].data # <<>>
          /\ c2s.nextSeq = Add(calls[i].data[Len(calls[i].data)][1], 1)

\* The call being made is AssembleWithContext for direction d with a segment
\* the stream accepts without setting *start
Accepted(d) ==
    /\ lastCall'.kind = "AssembleWithContext"
    /\ lastCall'.dir = d
    /\ lastCall'.accept = "accept"

\* The half of direction d has seen nothing yet
Fresh(d) ==
    ~pool \/ (~HalfOf(d).closed /\ HalfOf(d).nextSeq = invalidSequence
                /\ HalfOf(d).queue = <<>>)

\* The half of direction d is open and waits for seq with nothing queued
InOrderAt(d, seq) ==
    /\ pool
    /\ ~HalfOf(d).closed
    /\ HalfOf(d).queue = <<>>
    /\ HalfOf(d).nextSeq = seq

PayloadPositions(t) == [i \in 1..Len(t.bytes) |-> Add(t.seq, i - 1)]

\* A data segment that arrives in order: one ReassembledSG call with Skip = 0
\* and exactly its payload
InOrderData(d) ==
    LET t == lastCall'.t
    IN  (Accepted(d) /\ ~t.SYN /\ ~t.FIN /\ ~t.RST /\ InOrderAt(d, t.seq)) =>
            /\ Len(SGCalls(calls', d)) = 1
            /\ SGCalls(calls', d)[1].Skip = 0
            /\ ~SGCalls(calls', d)[1].end
            /\ NewData(SGCalls(calls', d)[1]) = PayloadPositions(t)
            /\ HalfOf(d)'.nextSeq = Add(t.seq, Len(t.bytes))

\* A FIN without payload that arrives in order: one ReassembledSG call with no
\* new byte, marked end
InOrderFin(d) ==
    LET t == lastCall'.t
    IN  (Accepted(d) /\ t.FIN /\ t.bytes = <<>> /\ InOrderAt(d, t.seq)) =>
            /\ Len(SGCalls(calls', d)) = 1
            /\ SGCalls(calls', d)[1].Skip = 0
            /\ SGCalls(calls', d)[1].end
            /\ NewData(SGCalls(calls', d)[1]) = <<>>
            /\ HalfOf(d)'.nextSeq = Add(t.seq, 1)

\* The SYN that starts a half: no ReassembledSG call, nextSeq = seq + 1
SynSilent(d) ==
    LET t == lastCall'.t
    IN  (Accepted(d) /\ t.SYN /\ t.bytes = <<>> /\ Fresh(d)) =>
            /\ SGCalls(calls', d) = <<>>
            /\ HalfOf(d)'.nextSeq = Add(t.seq, 1)

\* The SYN that starts a half: one ReassembledSG call without bytes, not
\* marked end, nextSeq = seq + 1
SynAnnounced(d) ==
    LET t == lastCall'.t
    IN  (Accepted(d) /\ t.SYN /\ t.bytes = <<>> /\ Fresh(d)) =>
            /\ Len(SGCalls(calls', d)) = 1
            /\ SGCalls(calls', d)[1].Skip = 0
            /\ ~SGCalls(calls', d)[1].end
            /\ SGCalls(calls', d)[1].data = <<>>
            /\ HalfOf(d)'.nextSeq = Add(t.seq, 1)

\* C16: the in-order stream SYN(seq = s), data segments in order, FIN, taken
\* one segment at a time.  The SYN makes no ReassembledSG call and leaves
\* nextSeq = s + 1; every data segment that arrives at nextSeq with nothing
\* queued makes exactly one ReassembledSG call with Skip = 0 and its payload
\* and moves nextSeq past it; the FIN makes exactly one call without bytes,
\* marked end, and moves nextSeq one further.
C16_InOrderStream ==
    [][\A d \in Dirs : SynSilent(d) /\ InOrderData(d) /\ InOrderFin(d)]_vars

\* C16, amended: as C16, but the SYN makes one ReassembledSG call of its own,
\* without bytes and not marked end.
C16_InOrderStreamWithSyn ==
    [][\A d \in Dirs : SynAnnounced(d) /\ InOrderData(d) /\ InOrderFin(d)]_vars

\* C16 witness: a stream that started with a SYN has had its payload
\* delivered in order and has just been ended by a FIN; nextSeq is
\* s + 1 + payload length + 1
C16_InOrderEnded ==
    /\ Assembled
    /\ lastCall.dir = "c2s"
    /\ lastCall.t.FIN /\ lastCall.t.bytes = <<>>
    /\ obs.c2s.syn
    /\ obs.c2s.delivered # <<>>
    /\ Positions(obs.c2s.delivered) = Ideal(obs.c2s)
    /\ Len(SGCalls(calls, "c2s")) = 1
    /\ SGCalls(calls, "c2s")[1].end
    /\ c2s.closed
    /\ c2s.nextSeq = Add(Isn, 1 + Len(obs.c2s.delivered) + 1)

\* The new bytes of the ReassembledSG calls cs, one after the other
RECURSIVE AllNewData(_)
AllNewData(cs) == IF cs = <<>> THEN <<>> ELSE NewData(Head(cs)) \o AllNewData(Tail(cs))

\* A segment that starts at or before nextSeq, on an open half with nothing
\* queued: the bytes from nextSeq on are delivered, nothing is delivered and
\* no call is made when it has none and carries no flag, and overlapBytes
\* grows by the number of bytes trimmed
OverlapDelivered(d) ==
    LET t == lastCall'.t
        k == Difference(t.seq, HalfOf(d).nextSeq)
        trimmed == Min(Len(t.bytes), k)
    IN  (/\ Accepted(d)
         /\ pool
         /\ ~HalfOf(d).closed
         /\ HalfOf(d).queue = <<>>
         /\ HalfOf(d).nextSeq # invalidSequence
         /\ k >= 0) =>
            /\ AllNewData(SGCalls(calls', d)) = Drop(PayloadPositions(t), trimmed)
            /\ (Len(t.bytes) <= k /\ ~t.SYN /\ ~t.FIN /\ ~t.RST) => SGCalls(calls', d) = <<>>
            /\ HalfOf(d)'.overlapBytes + Reported(calls', d) - HalfOf(d).overlapBytes
                  = trimmed

\* C17: overlap with data already delivered.  For a segment [seq, seq + len)
\* that arrives when nextSeq is valid and seq <= nextSeq, exactly its bytes at
\* sequence numbers >= nextSeq are delivered (none, and no ReassembledSG call
\* for a segment without SYN, FIN or RST, when seq + len <= nextSeq), and
\* overlapBytes grows by min(len, nextSeq - seq).  Stated for a half with
\* nothing queued.
C17_OverlapDelivered == [][\A d \in Dirs : OverlapDelivered(d)]_vars

\* The call being made is AssembleWithContext for direction d, on a connection
\* of the pool, with a segment the stream refuses
Rejected(d) ==
    /\ lastCall'.kind = "AssembleWithContext"
    /\ lastCall'.dir = d
    /\ lastCall'.accept = "reject"
    /\ pool

RejectionChangesNothing ==
    \A d \in Dirs : Rejected(d) =>
        /\ c2s' = c2s /\ s2c' = s2c
        /\ pc' = pc /\ pool' = pool /\ obs' = obs
        /\ calls' = <<>>

\* C18: a segment the stream's Accept refuses, on an existing connection,
\* leaves the half and the connection unchanged (nextSeq, ackSeq, lastSeen,
\* closed, queue, saved, pages, counters) and makes no callback.
C18_RejectionChangesNothing == [][RejectionChangesNothing]_vars

\* The capture timestamp of the call being made
Timestamp == step + 1

RejectionTouchesLastSeen ==
    \A d \in Dirs : Rejected(d) =>
        /\ HalfOf(d)' = [HalfOf(d) EXCEPT !.lastSeen = IF @ < Timestamp THEN Timestamp ELSE @]
        /\ HalfOf(Rev(d))' = HalfOf(Rev(d))
        /\ pc' = pc /\ pool' = pool /\ obs' = obs
        /\ calls' = <<>>

\* C18, amended: a refused segment changes nothing but lastSeen of its half,
\* which moves to the capture timestamp of the segment when that is later.
C18_RejectionTouchesLastSeen == [][RejectionTouchesLastSeen]_vars

\* C18 witness: a segment was refused on a connection that has pages queued;
\* no callback was made and lastSeen of the half is the segment's timestamp
C18_RefusedWhileQueued ==
    /\ Assembled
    /\ lastCall.accept = "reject"
    /\ lastCall.dir = "c2s"
    /\ pool
    /\ calls = <<>>
    /\ c2s.queue # <<>>
    /\ c2s.lastSeen = step
    /\ s2c.lastSeen < step

\* C19: with MaxBufferedPagesPerConnection = N > 0, half.pages is at most N
\* at the return of every AssembleWithContext call.
C19_PagesWithinLimit ==
    (Assembled /\ pool /\ opts.MaxBufferedPagesPerConnection > 0) =>
        \A d \in Dirs : HalfOf(d).pages <= opts.MaxBufferedPagesPerConnection

\* An assembler is inside the critical section of its connection: between
\* conn.mu.Lock() and conn.mu.Unlock()
InCritical(a) == asm[a].at \notin {"idle", "Lock", "remove"}

\* An assembler is inside a callback of the stream
InCallback(a) == asm[a].at \in {"ReassembledSG", "ReassemblyComplete"}

Serialised ==
    /\ \A a \in Assemblers : InCritical(a) => conns[asm[a].conn].mu = a
    /\ \A a, b \in Assemblers :
          (a # b /\ InCritical(a) /\ InCritical(b)) => asm[a].conn # asm[b].conn

\* A half of a connection changes only in a step of the assembler that holds
\* the mutex of the connection
WritesUnderMutex ==
    \A c \in ConnIds :
        (conns'[c].c2s # conns[c].c2s \/ conns'[c].s2c # conns[c].s2c) =>
            \E a \in Assemblers :
                /\ conns[c].mu = a
                /\ asm[a].conn = c
                /\ InCritical(a)
                /\ asm'[a] # asm[a]

\* C20: of the assemblers that share a pool, at most one at a time is inside
\* the critical section of a connection (segment handling, flushClose, the
\* drain loop of FlushAll), so the callbacks of a connection never run at
\* the same time, and a half changes only while the mutex is held.
C20_Serialised == [][Serialised' /\ WritesUnderMutex]_vars

\* C20 witness: one assembler is inside ReassembledSG of a connection while
\* another waits for the mutex of the same connection
C20_WaitingForCallback ==
    \E a, b \in Assemblers :
        /\ asm[a].at = "ReassembledSG"
        /\ asm[b].at = "Lock"
        /\ asm[a].conn = asm[b].conn

(***************************************************************************)
(* Properties of the reader pipeline.                                      *)
(***************************************************************************)
\* a Read of reader r returns in this step
ReadReturns(r) ==
    /\ readers[r].at \in {"receive", "Unlock"}
    /\ readers'[r].at \in {"Run", "Cleanup", "done"}

ReadContract ==
    \A r \in Readers :
        ReadReturns(r) =>
            /\ readers'[r].ret.err \in {"nil", "EOF"}
            /\ readers'[r].ret.err = "EOF" =>
                 /\ readers'[r].ret.n = 0
                 /\ bytesChan[r].closed
                 /\ bytesChan[r].buf = <<>>
                 /\ readers'[r].data = <<>>
            /\ readers'[r].ret.err = "nil" => readers'[r].ret.n >= 1
            /\ readers[r].eof => readers'[r].ret.err = "EOF"

\* C21: a Read returns either at least one byte and no error, or (0, io.EOF)
\* and then the byte channel is closed and empty and no residual is left; it
\* never returns (0, nil); after a Read has returned io.EOF every later Read
\* of that reader returns io.EOF.
C21_ReadContract == [][ReadContract]_vars

\* C21 witness: a reader that delivered bytes, returned io.EOF to Run, and
\* returned io.EOF again to a Read after Run
C21_EOFAgain ==
    \E r \in Readers :
        /\ Reader(r).at = "done"
        /\ Reader(r).lateReads = 1
        /\ Reader(r).got # <<>>
        /\ Reader(r).ret = [n |-> 0, err |-> "EOF"]

\* the positions of Cleanup, and after it
InCleanup(r) ==
    Reader(r).at \in {"ConversationRaw", "ConversationColored", "saveConnection",
                      "parentLock", "firstDone", "firstFLock", "firstDec",
                      "firstFUnlock", "last", "firstUnlock", "secondUnlock",
                      "secondDone", "secondFLock", "secondDec", "secondFUnlock"}
Returned(r) == Reader(r).at = "done" \/ (Reader(r).late /\ ~InCleanup(r))

\* C22: Cleanup runs at most once per reader, only after Run has seen Read
\* return io.EOF, and has run once when Run has returned; saveConnection is
\* called at most once per connection and only by the client reader's Cleanup;
\* Saved() is true only for a client reader whose Cleanup has run.
C22_CleanupOnce ==
    /\ \A r \in Readers :
         /\ Reader(r).cleanups <= 1
         /\ Reader(r).cleanups = 1 <=> (InCleanup(r) \/ Returned(r))
         /\ Reader(r).cleanups = 1 => Reader(r).eof
         /\ Reader(r).saved => isClient(r) /\ Reader(r).cleanups = 1
    /\ parent.saveCalls <= 1
    /\ parent.saveCalls = 1 <=> Reader("client").saved

\* C22 witness: both readers have returned from Run, the client has saved the
\* connection, and a later Read on the client has returned as well
C22_BothCleanedUp ==
    /\ \A r \in Readers : Reader(r).at = "done"
    /\ Reader("client").saved
    /\ parent.file # <<>>
    /\ Reader("client").lateReads = 1

\* what Cleanup of reader r has done when it has returned
CleanedUp(r) == Reader(r).at = "done" \/ (Reader(r).late /\ Reader(r).cleanups = 1)

\* the readers that have called f.wg.Done(), and those that have decremented
Signalled ==
    {r \in Readers : \/ CleanedUp(r)
                     \/ Reader(r).at \in {"firstFLock", "firstDec", "firstFUnlock", "last",
                                          "firstUnlock", "secondFLock", "secondDec",
                                          "secondFUnlock"}}
Decremented ==
    {r \in Readers : \/ CleanedUp(r)
                     \/ Reader(r).at \in {"firstFUnlock", "last", "firstUnlock",
                                          "secondFUnlock"}}

\* C23: every Cleanup decrements numActive once and calls wg.Done once, on
\* the path of the half that closes first and on the path of the second, and
\* whatever saveConnection returned; when both readers have cleaned up,
\* numActive has gone down by 2 and parent.last is true.
C23_CountedOnce ==
    /\ factory.wg = Cardinality(Readers) - Cardinality(Signalled)
    /\ factory.numActive = Cardinality(Readers) - Cardinality(Decremented)
    /\ (\A r \in Readers : CleanedUp(r)) =>
         /\ factory.numActive = newFactory.numActive - 2
         /\ factory.wg = 0
         /\ parent.last

\* C23 witness: both readers have cleaned up after a saveConnection that
\* failed (raw bytes were there, nothing was written)
C23_BothCounted ==
    /\ \A r \in Readers : Reader(r).at = "done"
    /\ Reader("client").raw # <<>>
    /\ parent.file = <<>>
    /\ factory.numActive = 0

\* reader r calls f.wg.Done() in this step
Signals(r) ==
    /\ readers[r].at \in {"firstDone", "secondDone"}
    /\ readers'[r].at # readers[r].at

SignalAfterClose ==
    \A r \in Readers :
        Signals(r) => bytesChan[r].closed /\ bytesChan[r].buf = <<>> /\ readers[r].data = <<>>

BarrierCount ==
    /\ factory.wg >= 0
    /\ factory.wg = 0 => \A r \in Readers : Reader(r).cleanups = 1
    /\ (\A r \in Readers : CleanedUp(r)) => factory.wg = 0

AllReturned == \A r \in Readers : CleanedUp(r) /\ ~InCleanup(r)

\* C24: with every reader registered once and every byte channel closed in
\* the end, every Run returns and the wait group reaches zero; the count is
\* zero only when every reader has reached Cleanup and is zero once every
\* Cleanup has returned; a reader calls wg.Done only when its channel is
\* closed and drained; the two readers never block each other for good on
\* the parent's and the factory's mutex.
C24_BarrierLiveness ==
    /\ []BarrierCount
    /\ [][SignalAfterClose]_vars
    /\ <>[](AllReturned /\ factory.wg = 0 /\ parent.mu = "free" /\ factory.mu = "free")

\* C24 witness: both readers delivered bytes before their channels were
\* closed, and both have signalled the wait group
C24_BarrierReached ==
    /\ factory.wg = 0
    /\ \A r \in Readers : Reader(r).got # <<>> /\ Reader(r).at = "done"

(***************************************************************************)
(* Properties of the assembler, continued.                                 *)
(***************************************************************************)
\* AssembleWithContext queues the accepted segment t in the open half h: the
\* stream has not started, or t lies after nextSeq
Queues(h, t) ==
    /\ ~h.closed
    /\ ~t.SYN
    /\ Len(t.bytes) > 0
    /\ IF h.nextSeq = invalidSequence THEN TRUE ELSE ~contiguous(h.nextSeq, t.seq)

\* the range of t extends before the head of the page c only
HeadOverlap(t, c) ==
    /\ Difference(t.seq, c.seq) >= 0
    /\ Difference(c.seq, Add(t.seq, Len(t.bytes))) > 0
    /\ Difference(Add(t.seq, Len(t.bytes)), Add(c.seq, Len(c.bytes))) > 0

\* the page c is in the queue q as it was, and no other page of q holds a
\* sequence number of c
Kept(q, c) ==
    /\ \E j \in 1..Len(q) : q[j].id = c.id /\ q[j].seq = c.seq /\ q[j].bytes = c.bytes
    /\ \A j \in 1..Len(q) :
          q[j].id # c.id => PagePositions(<<q[j]>>) \cap PagePositions(<<c>>) = {}

HeadOverlapKeepsOld ==
    (Unlimited /\ pool /\ lastCall'.kind = "AssembleWithContext") =>
        \A d \in Dirs :
            (lastCall'.dir = d /\ lastCall'.accept = "accept"
                /\ Queues(HalfOf(d), lastCall'.t)) =>
                \A i \in 1..Len(HalfOf(d).queue) :
                    HeadOverlap(lastCall'.t, HalfOf(d).queue[i]) =>
                        Kept(HalfOf(d)'.queue, HalfOf(d).queue[i])

\* C25: when a queued segment's range [start, end) extends before the head of
\* a queued page cur only (start <= cs and cs < end < ce), cur stays in the
\* queue with the same seq and bytes and the new bytes are cut at cs, so no
\* other page holds a sequence number of cur.
C25_HeadOverlapKeepsOld == [][HeadOverlapKeepsOld]_vars

\* A buffer limit is set, and the call being made with a segment to queue for
\* direction d ends in a delivery: the limit was hit
LimitHit(d) ==
    /\ ~Unlimited
    /\ pool
    /\ lastCall'.kind = "AssembleWithContext"
    /\ lastCall'.dir = d
    /\ lastCall'.accept = "accept"
    /\ Queues(HalfOf(d), lastCall'.t)
    /\ SGCalls(calls', d) # <<>>

DegradesAtLimit ==
    \A d \in Dirs :
        LimitHit(d) =>
            \* the segment's bytes are not put into the queue
            /\ \A j \in 1..Len(HalfOf(d)'.queue) : HalfOf(d)'.queue[j].seen # step'
            \* the page delivered first is the head of the queue
            /\ HalfOf(d).queue # <<>> =>
                  /\ NewData(SGCalls(calls', d)[1]) # <<>>
                  /\ NewData(SGCalls(calls', d)[1])[1] = HalfOf(d).queue[1].seq
            \* with every page that follows it without a gap
            /\ HalfOf(d)'.queue # <<>> =>
                  HalfOf(d)'.queue[1].seq # HalfOf(d)'.nextSeq

\* C26: when a segment to be queued hits MaxBufferedPagesPerConnection or
\* MaxBufferedPagesTotal, its bytes are not inserted into the queue of the
\* half; the page with the smallest seq is taken off the queue and delivered
\* in the same call together with all pages contiguous with it.
C26_DegradesAtLimit == [][DegradesAtLimit]_vars

\* the bytes of the saved pages of direction d, each with its sequence number
SavedBytes(d) == Flatten(HalfOf(d).saved)

Retained ==
    \A d \in Dirs :
        SGCalls(calls', d) # <<>> =>
            LET c == SGCalls(calls', d)[Len(SGCalls(calls', d))]
            IN  SavedBytes(d)' = IF opts.toKeep >= 0 /\ opts.toKeep < Len(c.data)
                                 THEN Drop(c.data, opts.toKeep)
                                 ELSE <<>>

\* C27: after a delivery in which the consumer set toKeep = k with
\* 0 <= k < length of the delivery, the saved list of the half holds the
\* delivered bytes from offset k to the end, in order and with their sequence
\* numbers, whether they lie in one container or in several; with toKeep = -1
\* or k >= the length, the saved list is empty.
C27_Retained == [][Retained]_vars

\* the number of pages of the queue q that follow one another without a gap
\* from sequence number next on
RECURSIVE RunPages(_, _)
RunPages(q, next) ==
    IF q = <<>> \/ Head(q).seq # next THEN 0
    ELSE 1 + RunPages(Tail(q), Add(Head(q).seq, Len(Head(q).bytes)))

\* what a flush with T leaves of the queue q: the pages from the first run on
\* whose head page was not seen before T
RECURSIVE NotFlushed(_, _)
NotFlushed(q, T) ==
    IF q = <<>> THEN <<>>
    ELSE IF ~(Head(q).seen < T) THEN q
    ELSE NotFlushed(Drop(q, RunPages(q, Head(q).seq)), T)

\* the last n elements of s
Last(s, n) == Drop(s, Len(s) - n)

FlushStopsAtYoungHead ==
    (lastCall'.kind = "FlushWithOptions" /\ pool) =>
        \A d \in Dirs :
            ~HalfOf(d).closed =>
                /\ Len(NotFlushed(HalfOf(d).queue, lastCall'.T)) <= Len(HalfOf(d)'.queue)
                \* the runs with a head that is not older than T stay queued
                /\ Contents(Last(HalfOf(d)'.queue,
                                 Len(NotFlushed(HalfOf(d).queue, lastCall'.T))))
                      = Contents(NotFlushed(HalfOf(d).queue, lastCall'.T))
                \* and only pages before them are delivered, in order
                /\ \E n \in 0..(Len(HalfOf(d).queue)
                                  - Len(NotFlushed(HalfOf(d).queue, lastCall'.T))) :
                      AllNewData(SGCalls(calls', d))
                          = Positions(Flatten(Take(HalfOf(d).queue, n)))
                \* all of them, unless a page with End has closed the half
                /\ ~HalfOf(d)'.closed =>
                      /\ Contents(HalfOf(d)'.queue)
                            = Contents(NotFlushed(HalfOf(d).queue, lastCall'.T))
                      /\ AllNewData(SGCalls(calls', d))
                            = Positions(Flatten(Take(HalfOf(d).queue,
                                  Len(HalfOf(d).queue)
                                    - Len(NotFlushed(HalfOf(d).queue, lastCall'.T)))))

\* C28: FlushWithOptions skip-flushes a half only while the head page of its
\* queue was seen strictly before T: the run of a head page that is not older
\* than T, and every page after it, is not delivered and stays queued; the
\* pages before it are delivered run by run, each run with the pages that
\* follow its head without a gap whatever their timestamps, up to that head
\* page (or up to a page with End, which closes the half).
C28_FlushStopsAtYoungHead == [][FlushStopsAtYoungHead]_vars

\* C28 witness: a flush has delivered the pages seen before T and has left
\* a run queued whose head page was seen at T
C28_YoungHeadLeft ==
    /\ lastCall.kind = "FlushWithOptions"
    /\ \E d \in Dirs :
         /\ ~HalfOf(d).closed
         /\ SGCalls(calls, d) # <<>>
         /\ HalfOf(d).queue # <<>>
         /\ HalfOf(d).queue[1].seen = lastCall.T

(***************************************************************************)
(* Properties of the reader pipeline, continued.                           *)
(***************************************************************************)
\* the chunks in a byte channel, one after the other
RECURSIVE Concat(_)
Concat(cs) == IF cs = <<>> THEN <<>> ELSE Head(cs) \o Concat(Tail(cs))

\* the bytes sent to reader r so far, in the order they were sent
Sent(r) == Chunk(r, 0, bytesChan[r].sent)

\* what Read has returned, is about to return, holds as residual, and what is
\* still in the channel make up the bytes sent; at io.EOF all were returned
StreamFidelity ==
    \A r \in Readers :
        /\ Reader(r).got \o Reader(r).dataCpy \o Reader(r).data \o Concat(bytesChan[r].buf)
              = Sent(r)
        /\ Reader(r).eof => Reader(r).got = Sent(r)

\* Read receives from the channel only when it has no residual
ReceivesWhenEmpty ==
    \A r \in Readers :
        Len(bytesChan'[r].buf) < Len(bytesChan[r].buf) => readers[r].data = <<>>

\* C29: the bytes returned by the successive Reads of a reader up to io.EOF
\* are the bytes of the chunks sent on its channel, in send order, none lost,
\* repeated or moved; a chunk longer than the buffer is returned by several
\* Reads from the residual without a receive; empty chunks are skipped.
C29_StreamFidelity == []StreamFidelity /\ [][ReceivesWhenEmpty]_vars

\* the Reads of reader r that returned bytes
DataReads(r) ==
    {i \in 1..Len(parent.conversationColored) :
        parent.conversationColored[i][1] = (IF isClient(r) THEN "Red" ELSE "Blue")}

\* C29 witness: one chunk of two bytes was returned by two Reads with a buffer
\* of one byte, and then io.EOF
C29_ChunkAcrossReads ==
    \E r \in Readers :
        /\ Reader(r).eof
        /\ bytesChan[r].chunks = 1
        /\ Len(Reader(r).got) = 2
        /\ Cardinality(DataReads(r)) = 2

\* the bytes of the sequence s that were sent to reader r
Of(s, r) == SelectSeq(s, LAMBDA b : b[1] = r)

\* the buffer Read of reader r appends to
DataBuffer(r) == IF isClient(r) THEN Reader(r).clientData ELSE Reader(r).serverData
OtherBuffer(r) == IF isClient(r) THEN Reader(r).serverData ELSE Reader(r).clientData

\* a step changes conversationRaw or a data buffer only by appending the bytes
\* of the Read that holds the parent's mutex
AppendsUnderLock ==
    /\ parent'.conversationRaw # parent.conversationRaw =>
          \E r \in Readers :
              /\ parent.mu = r
              /\ readers[r].dataCpy # <<>>
              /\ parent'.conversationRaw = parent.conversationRaw \o readers[r].dataCpy
    /\ \A r \in Readers :
          /\ OtherBuffer(r)' = <<>>
          /\ DataBuffer(r)' # DataBuffer(r) =>
                /\ parent.mu = r
                /\ DataBuffer(r)' = DataBuffer(r) \o readers[r].dataCpy

\* conversationRaw is as long as the two streams together, and holds each
\* stream in its order
RawIsInterleaving ==
    /\ Len(parent.conversationRaw)
          = Len(Reader("client").clientData) + Len(Reader("server").serverData)
    /\ \A r \in Readers : Of(parent.conversationRaw, r) = DataBuffer(r)

\* while a Read is between its two writes, conversationRaw is ahead of the
\* reader's buffer by the bytes of that Read
RawAhead ==
    \A r \in Readers :
        Of(parent.conversationRaw, r)
            = DataBuffer(r) \o (IF Reader(r).at = "data" THEN Reader(r).dataCpy ELSE <<>>)

\* C30: every Read that returns bytes appends them, holding the parent's
\* mutex, to conversationRaw and to its own clientData (client) or serverData
\* (server) and to no other data buffer; in every reachable state
\* conversationRaw is as long as the client's clientData and the server's
\* serverData together and is an interleaving of the two streams.
C30_BuffersAlways == []RawIsInterleaving /\ [][AppendsUnderLock]_vars

\* C30, amended: the same, with the equality of the lengths and the
\* interleaving holding whenever the parent's mutex is free; while a Read
\* holds it, conversationRaw is ahead by the bytes that Read is appending.
C30_BuffersWhenUnlocked ==
    /\ [](parent.mu = "free" => RawIsInterleaving)
    /\ []RawAhead
    /\ [][AppendsUnderLock]_vars

\* C30 witness: both readers have appended, the client before and after the
\* server, and the mutex is free
C30_Interleaved ==
    /\ parent.mu = "free"
    /\ \E i, j, k \in 1..Len(parent.conversationRaw) :
         /\ i < j /\ j < k
         /\ parent.conversationRaw[i][1] = "client"
         /\ parent.conversationRaw[j][1] = "server"
         /\ parent.conversationRaw[k][1] = "client"

(***************************************************************************)
(* Properties of the assembler: nextSeq after a call.                      *)
(***************************************************************************)
\* the last ReassembledSG call for direction d among the callbacks cs
LastSG(cs, d) == SGCalls(cs, d)[Len(SGCalls(cs, d))]

\* the sequence number just past the last byte handed to ReassembledSG in c
PastLast(c) == Add(NewData(c)[Len(NewData(c))], 1)

\* nextSeq of direction d as the call being made finds it: a connection that
\* is not in the pool is created with nextSeq invalid
NextSeqBefore(d) == IF pool THEN HalfOf(d).nextSeq ELSE invalidSequence

\* the call being made is AssembleWithContext for direction d
Assembling(d) == lastCall'.kind = "AssembleWithContext" /\ lastCall'.dir = d

\* the call being made hands new bytes of direction d to ReassembledSG
Delivers(d) ==
    /\ Assembling(d)
    /\ SGCalls(calls', d) # <<>>
    /\ NewData(LastSG(calls', d)) # <<>>

\* the segment of the call being made is sent at once: it starts the stream
\* or does not lie after nextSeq
SentAtOnce(d) ==
    IF NextSeqBefore(d) = invalidSequence
    THEN lastCall'.t.SYN \/ lastCall'.accept = "start"
    ELSE contiguous(NextSeqBefore(d), lastCall'.t.seq)

\* the page p is in the queue q
Queued(q, p) == \E j \in 1..Len(q) : q[j].seen = p.seen /\ q[j].seq = p.seq

\* a queued page that holds a FIN: End is set for FIN and RST, and of the
\* two only a FIN carries payload
FinPage(p) == p.end /\ Len(p.bytes) > 0

\* a FIN is part of what the call being made delivers for direction d: the
\* FIN of its segment, sent at once or taken from the queue in the same call,
\* or the FIN of a page queued earlier
FinDelivered(d) ==
    \/ /\ lastCall'.t.FIN
       /\ \/ SentAtOnce(d)
          \/ \A j \in 1..Len(HalfOf(d)'.queue) : HalfOf(d)'.queue[j].seen # step'
    \/ /\ pool
       /\ \E j \in 1..Len(HalfOf(d).queue) :
             /\ FinPage(HalfOf(d).queue[j])
             /\ ~Queued(HalfOf(d)'.queue, HalfOf(d).queue[j])

\* nextSeq is where the delivery ended, one further for a delivered FIN
TracksDelivery(d) ==
    Delivers(d) =>
        HalfOf(d)'.nextSeq = IF FinDelivered(d)
                             THEN Add(PastLast(LastSG(calls', d)), 1)
                             ELSE PastLast(LastSG(calls', d))

\* a call without a delivery leaves nextSeq, or sets it from SYN or a forced
\* start
KeepsNextSeq(d) ==
    (Assembling(d) /\ SGCalls(calls', d) = <<>>) =>
        \/ HalfOf(d)'.nextSeq = NextSeqBefore(d)
        \/ /\ NextSeqBefore(d) = invalidSequence
           /\ lastCall'.accept # "reject"
           /\ \/ lastCall'.t.SYN /\ HalfOf(d)'.nextSeq = Add(lastCall'.t.seq, 1)
              \/ lastCall'.accept = "start" /\ HalfOf(d)'.nextSeq = lastCall'.t.seq

NextSeqTracksDelivery == \A d \in Dirs : TracksDelivery(d) /\ KeepsNextSeq(d)

\* C31: after an AssembleWithContext call that delivers data, nextSeq of the
\* half is the sequence number just past the last byte handed to
\* ReassembledSG in that call, plus one if and only if a FIN was part of
\* what was delivered in that call; a FIN segment that stays queued does not
\* move nextSeq past data delivered from other pages; a call that delivers
\* nothing leaves nextSeq unchanged unless it sets it from SYN or a forced
\* start.
C31_NextSeqTracksDelivery == [][NextSeqTracksDelivery]_vars

(***************************************************************************)
(* Properties of the reader pipeline: what saveConnection is given.        *)
(***************************************************************************)
\* the writes of the server reader in the coloured conversation cs
ServerWrites(cs) == SelectSeq(cs, LAMBDA w : w[1] = "Blue")

\* once the client's Cleanup has called saveConnection, the buffers it passed
\* hold every byte the server reader has appended to the conversation
SavedHoldsServerBytes ==
    Reader("client").saved =>
        /\ Of(Reader("client").raw, "server") = Of(parent.conversationRaw, "server")
        /\ ServerWrites(Reader("client").colored) = ServerWrites(parent.conversationColored)

\* once the connection is saved, no Read of the server reader appends to
\* conversationRaw
NoServerAppendAfterSave ==
    Reader("client").saved =>
        Of(parent'.conversationRaw, "server") = Of(parent.conversationRaw, "server")

\* C32: when the client reader's Cleanup calls saveConnection, the
\* conversation buffers passed to it hold every byte that the readers of the
\* connection ever read: no Read of the server reader appends to
\* conversationRaw after the connection has been saved, under any
\* interleaving of the two reader tasks.
C32_SavedComplete == []SavedHoldsServerBytes /\ [][NoServerAppendAfterSave]_vars

====
